---- MODULE Spec2Model ----
(***************************************************************************)
(* Event-sourced pomodoro session state machine (crates/pomodoro).         *)
(*                                                                         *)
(* The store is the two SQLite tables written by Querier: `sessions` and   *)
(* `events`, sets of rows.  Each command of main.rs (start, stop, status)  *)
(* runs inside one immediate transaction, so a command is one atomic step: *)
(* it commits its rows or, when a call fails, leaves the store untouched.  *)
(* Time is counted in clock ticks, TicksPerSec ticks to the second, so     *)
(* that the conversions to whole seconds (as_secs, num_seconds) truncate.  *)
(***************************************************************************)
EXTENDS Integers, Sequences, FiniteSets, TLC

VARIABLES
    sessions,   \* rows of table `sessions`
    events,     \* rows of table `session_events`
    now,        \* the wall clock, in ticks (Utc::now)
    nextSeq,    \* number of UUIDs handed out so far (Uuid::now_v7 counter)
    hooks,      \* hook processes spawned so far, oldest first
    last,       \* the last command run: its arguments, the store before it, its outcome
    tx          \* the database lock and the command processes that are under way

vars == <<sessions, events, now, nextSeq, hooks, last, tx>>

----------------------------------------------------------------------------
\* Bounds of the model.

\* Most rows the event table holds.
MaxEvents == 4
\* Last clock tick.
MaxNow == 2
\* Most UUIDs generated.
MaxSeq == 7
\* Clock ticks per second.
TicksPerSec == 2

----------------------------------------------------------------------------
\* Option<T>: None is the empty sequence, Some(x) the one-element sequence.

None == <<>>

Some(x) == <<x>>

is_some(o) == o # <<>>

unwrap(o) == o[1]

Max(a, b) == IF a >= b THEN a ELSE b

----------------------------------------------------------------------------
\* state/model.rs

\* enum SessionKind
SessionKind == {"Focus", "Break"}

\* enum SessionEventKind
SessionEventKind == {"Started", "Resumed", "Paused", "Aborted", "Completed"}

\* impl Display for SessionKind
SessionKind_to_string(kind) ==
    CASE kind = "Focus" -> "focus"
      [] kind = "Break" -> "break"

\* SessionKind::try_from that takes an unknown text for the default kind.
SessionKind_try_from_or_default(value) ==
    CASE value = "focus" -> Some("Focus")
      [] value = "break" -> Some("Break")
      [] OTHER -> Some("Focus")

\* impl TryFrom<&str> for SessionKind: Ok(kind) as Some(kind), Err as None
SessionKind_try_from(value) ==
    CASE value = "focus" -> Some("Focus")
      [] value = "break" -> Some("Break")
      [] OTHER -> None

\* impl Display for SessionEventKind
SessionEventKind_to_string(kind) ==
    CASE kind = "Started" -> "started"
      [] kind = "Resumed" -> "resumed"
      [] kind = "Paused" -> "paused"
      [] kind = "Aborted" -> "aborted"
      [] kind = "Completed" -> "completed"

\* impl TryFrom<&str> for SessionEventKind: Ok(kind) as Some(kind), Err as None
SessionEventKind_try_from(value) ==
    CASE value = "started" -> Some("Started")
      [] value = "resumed" -> Some("Resumed")
      [] value = "paused" -> Some("Paused")
      [] value = "aborted" -> Some("Aborted")
      [] value = "completed" -> Some("Completed")
      [] OTHER -> None

\* Uuid::now_v7(): the clock reading, then a counter that orders the UUIDs of one reading.
now_v7(t, seq) == <<t, seq + 1>>

\* Uuid::default(): the nil UUID.
Uuid_default == <<0, 0>>

\* Ord for Uuid: byte order, i.e. timestamp first.
Uuid_lt(a, b) == a[1] < b[1] \/ (a[1] = b[1] /\ a[2] < b[2])

\* chrono::Duration::seconds
Duration_seconds(secs) == secs * TicksPerSec

\* chrono::Duration::num_seconds: whole seconds, truncated toward zero.
num_seconds(d) == IF d >= 0 THEN d \div TicksPerSec ELSE 0 - ((0 - d) \div TicksPerSec)

\* std::time::Duration::as_secs
as_secs(d) == d \div TicksPerSec

\* Duration::seconds(1500) of Session::default.
DefaultPlannedSecs == 1500

\* impl Default for Session
Session_default(t, seq) ==
    [id |-> now_v7(t, seq), kind |-> "Focus",
     planned_duration |-> Duration_seconds(DefaultPlannedSecs), created_at |-> t]

\* impl Default for SessionEvent
SessionEvent_default(t, seq) ==
    [id |-> now_v7(t, seq), kind |-> "Started", session_id |-> Uuid_default, created_at |-> t]

\* SessionEvent::started with the kind of SessionEvent::resumed.
SessionEvent_started_kind_resumed(session_id, t, seq) ==
    [SessionEvent_default(t, seq) EXCEPT !.session_id = session_id, !.kind = "Resumed"]

SessionEvent_started(session_id, t, seq) ==
    [SessionEvent_default(t, seq) EXCEPT !.session_id = session_id]

SessionEvent_paused(session_id, t, seq) ==
    [SessionEvent_default(t, seq) EXCEPT !.session_id = session_id, !.kind = "Paused"]

\* SessionEvent::resumed that leaves the kind of SessionEvent::default.
SessionEvent_resumed_default_kind(session_id, t, seq) ==
    [SessionEvent_default(t, seq) EXCEPT !.session_id = session_id]

SessionEvent_resumed(session_id, t, seq) ==
    [SessionEvent_default(t, seq) EXCEPT !.session_id = session_id, !.kind = "Resumed"]

SessionEvent_aborted(session_id, t, seq) ==
    [SessionEvent_default(t, seq) EXCEPT !.session_id = session_id, !.kind = "Aborted"]

\* SessionEvent::completed with a created_at that is not read from the clock.
SessionEvent_completed_at_epoch(session_id, t, seq) ==
    [SessionEvent_default(t, seq) EXCEPT !.session_id = session_id, !.kind = "Completed",
                                         !.created_at = 0]

\* SessionEvent::completed with the kind of SessionEvent::aborted.
SessionEvent_completed_kind_aborted(session_id, t, seq) ==
    [SessionEvent_default(t, seq) EXCEPT !.session_id = session_id, !.kind = "Aborted"]

SessionEvent_completed(session_id, t, seq) ==
    [SessionEvent_default(t, seq) EXCEPT !.session_id = session_id, !.kind = "Completed"]

\* impl FromRow for Session
Session_from_row(row) ==
    [id |-> row.session_id, kind |-> unwrap(SessionKind_try_from(row.session_kind)),
     planned_duration |-> Duration_seconds(row.planned_secs), created_at |-> row.created_at]

\* impl FromRow for SessionEvent
SessionEvent_from_row(row) ==
    [id |-> row.session_event_id, kind |-> unwrap(SessionEventKind_try_from(row.session_event_kind)),
     session_id |-> row.session_id, created_at |-> row.created_at]

----------------------------------------------------------------------------
\* state/query.rs.  The SQL text is read from query.sql at run time; what each query does
\* is taken from the parameters Querier binds and from its documentation: both list
\* queries return rows by identifier, descending, and list_session_events keeps one
\* session's rows when a session_id is bound.

\* The rows of S as a sequence, greatest id first (ORDER BY <id> DESC).
RECURSIVE order_by_id_desc(_, _)
order_by_id_desc(S, column) ==
    IF S = {} THEN <<>>
    ELSE LET top == CHOOSE r \in S : \A o \in S : o = r \/ Uuid_lt(o[column], r[column])
         IN <<top>> \o order_by_id_desc(S \ {top}, column)

\* LIMIT n of a result; None is no limit.
limit_rows(rows, limit) ==
    IF is_some(limit) /\ unwrap(limit) < Len(rows) THEN SubSeq(rows, 1, unwrap(limit)) ELSE rows

\* Querier::insert_session: the table with the row added.
insert_session(tbl, session) ==
    tbl \cup {[session_id |-> session.id, session_kind |-> SessionKind_to_string(session.kind),
               planned_secs |-> num_seconds(session.planned_duration),
               created_at |-> session.created_at]}

\* get_session_by_id that answers a missing row with a default session of that id.
get_session_by_id_or_default(tbl, session_id) ==
    LET found == {r \in tbl : r.session_id = session_id}
    IN IF found = {}
       THEN Some([id |-> session_id, kind |-> "Focus",
                  planned_duration |-> Duration_seconds(DefaultPlannedSecs), created_at |-> 0])
       ELSE Some(Session_from_row(CHOOSE r \in found : TRUE))

\* Querier::get_session_by_id: Some(session), or None when no row has the id (query_one fails).
get_session_by_id(tbl, session_id) ==
    LET found == {r \in tbl : r.session_id = session_id}
    IN IF found = {} THEN None ELSE Some(Session_from_row(CHOOSE r \in found : TRUE))

\* list_sessions ordered by identifier ascending.
list_sessions_oldest_first(tbl, args) ==
    LET desc == order_by_id_desc(tbl, "session_id")
        rows == [i \in 1..Len(desc) |-> desc[Len(desc) + 1 - i]]
        page == limit_rows(rows, args.limit)
    IN [i \in 1..Len(page) |-> Session_from_row(page[i])]

\* Querier::list_sessions
list_sessions(tbl, args) ==
    LET rows == order_by_id_desc(tbl, "session_id")
        page == limit_rows(rows, args.limit)
    IN [i \in 1..Len(page) |-> Session_from_row(page[i])]

\* insert_session_event as an upsert keyed by session: the new row replaces the session's rows.
insert_session_event_replacing(tbl, session_event) ==
    {r \in tbl : r.session_id # session_event.session_id}
        \cup {[session_event_id |-> session_event.id,
               session_event_kind |-> SessionEventKind_to_string(session_event.kind),
               session_id |-> session_event.session_id,
               created_at |-> session_event.created_at]}

\* Querier::insert_session_event: the table with the row added.
insert_session_event(tbl, session_event) ==
    tbl \cup {[session_event_id |-> session_event.id,
               session_event_kind |-> SessionEventKind_to_string(session_event.kind),
               session_id |-> session_event.session_id,
               created_at |-> session_event.created_at]}

\* Querier::list_session_events
list_session_events(tbl, args) ==
    LET scope == IF is_some(args.session_id)
                 THEN {r \in tbl : r.session_id = unwrap(args.session_id)}
                 ELSE tbl
        rows == order_by_id_desc(scope, "session_event_id")
        page == limit_rows(rows, args.limit)
    IN [i \in 1..Len(page) |-> SessionEvent_from_row(page[i])]

\* u32::MAX, the limit of ListSessionEventsArgs::with_session_id.  The value, 4294967295, is
\* beyond TLC's integers; the largest one stands for it (no table of the model is that long).
U32Max == 2147483647

ListSessionEventsArgs_first == [session_id |-> None, limit |-> Some(1), offset |-> None]

ListSessionEventsArgs_with_session_id(session_id) ==
    [session_id |-> Some(session_id), limit |-> Some(U32Max), offset |-> None]

ListSessionsArgs_first == [limit |-> Some(1), offset |-> None]

----------------------------------------------------------------------------
\* app/cli.rs

\* enum StartMode
StartMode == {"Focus", "Break"}

\* enum StatusOutput
StatusOutput == {"Text", "Json"}

\* Minutes of ProgramConfig::default().focus_duration
DefaultFocusMinutes == 25

\* Minutes of ProgramConfig::default().break_duration
DefaultBreakMinutes == 5

\* Duration::from_secs
Duration_from_secs(secs) == secs * TicksPerSec

\* impl Default for ProgramConfig
ProgramConfig_default ==
    [focus_duration |-> Duration_from_secs(DefaultFocusMinutes * 60),
     break_duration |-> Duration_from_secs(DefaultBreakMinutes * 60)]

\* ProgramConfig::load().unwrap_or_default() of main: `file` is Some(config) when the
\* configuration file is read and parsed, None when it is not.
ProgramConfig_load(file) == IF is_some(file) THEN unwrap(file) ELSE ProgramConfig_default

\* with_config that takes the focus default whatever the mode.
with_config_ignores_mode(args, config) ==
    IF ~is_some(args.duration)
    THEN [args EXCEPT !.duration = Some(config.focus_duration)]
    ELSE args

\* StartCommandArgs::with_config
with_config(args, config) ==
    IF ~is_some(args.duration)
    THEN [args EXCEPT !.duration = Some(CASE args.mode = "Focus" -> config.focus_duration
                                          [] args.mode = "Break" -> config.break_duration)]
    ELSE args

----------------------------------------------------------------------------
\* hook/run.rs

\* What a Runner meets when it runs the hook of an event: no file of that name in the hooks
\* directory, a script that is spawned and fed, or a failure of one of the three steps.
HookOutcome == {"missing", "ok", "serialize_error", "spawn_error", "write_error"}

\* Runner::name that routes Paused to the start hook.
Runner_name_paused_to_start(args) ==
    IF args.session_event.kind \in {"Started", "Resumed", "Paused"} THEN "start" ELSE "stop"

\* Runner::name
Runner_name(args) ==
    IF args.session_event.kind \in {"Started", "Resumed"} THEN "start" ELSE "stop"

\* Runner::execute: its Result, and the child processes it leaves running.  `runner` is the
\* Runner with what its hooks directory holds (a HookOutcome).
Runner_execute(runner, args) ==
    LET name == Runner_name(args) IN
    CASE runner = "missing" -> [ok |-> TRUE, spawned |-> <<>>]
      [] runner = "serialize_error" -> [ok |-> FALSE, spawned |-> <<>>]
      [] runner = "spawn_error" -> [ok |-> FALSE, spawned |-> <<>>]
      [] runner = "write_error" -> [ok |-> FALSE, spawned |-> <<[name |-> name, stdin |-> None]>>]
      [] runner = "ok" -> [ok |-> TRUE, spawned |-> <<[name |-> name, stdin |-> Some(args)]>>]

----------------------------------------------------------------------------
\* app/cmd.rs

\* impl From<StartMode> for SessionKind
SessionKind_from(mode) ==
    CASE mode = "Focus" -> "Focus"
      [] mode = "Break" -> "Break"

\* Session_from that keeps the kind of Session::default whatever the mode.
Session_from_default_kind(args, t, seq) ==
    [Session_default(t, seq) EXCEPT
        !.planned_duration = Duration_seconds(as_secs(unwrap(args.duration)))]

\* impl From<&StartCommandArgs> for Session
Session_from(args, t, seq) ==
    LET config == ProgramConfig_default
        duration == IF is_some(args.duration) THEN unwrap(args.duration)
                    ELSE CASE args.mode = "Focus" -> config.focus_duration
                           [] args.mode = "Break" -> config.break_duration
    IN [Session_default(t, seq) EXCEPT !.kind = SessionKind_from(args.mode),
                                       !.planned_duration = Duration_seconds(as_secs(duration))]

\* The calls of a command that can fail with a storage or render error.
Fault == {"list_session_events", "list_sessions", "get_session_by_id", "insert_session",
          "insert_session_event", "render", "commit"}

\* What an execute leaves behind when it returns: Ok or Err, the tables as its transaction
\* sees them, the UUID counter, the hook processes it spawned and the lines it printed.
Return(ok, s, e, seq, spawned, out) ==
    [ok |-> ok, sessions |-> s, events |-> e, seq |-> seq, spawned |-> spawned, out |-> out]

\* insert_and_dispatch with `runner.execute(&args)?` in place of `.ok()`.
insert_and_dispatch_propagates(s, e, session, session_event, runner, fault, seq, out) ==
    IF fault = "insert_session_event" THEN Return(FALSE, s, e, seq, <<>>, out)
    ELSE LET e1 == insert_session_event(e, session_event)
             args == [session |-> session, session_event |-> session_event]
             hook == IF is_some(runner) THEN Runner_execute(unwrap(runner), args)
                     ELSE [ok |-> TRUE, spawned |-> <<>>]
         IN Return(hook.ok, s, e1, seq, hook.spawned, out)

\* insert_and_dispatch with the insert inside `if let Some(runner)`.
insert_and_dispatch_needs_runner(s, e, session, session_event, runner, fault, seq, out) ==
    IF ~is_some(runner) THEN Return(TRUE, s, e, seq, <<>>, out)
    ELSE IF fault = "insert_session_event" THEN Return(FALSE, s, e, seq, <<>>, out)
    ELSE LET e1 == insert_session_event(e, session_event)
             args == [session |-> session, session_event |-> session_event]
         IN Return(TRUE, s, e1, seq, Runner_execute(unwrap(runner), args).spawned, out)

\* The `if let Some(session_event)` tail of StartCommand::execute and StopCommand::execute:
\* insert the event, then run its hook and drop the hook's result.
insert_and_dispatch(s, e, session, session_event, runner, fault, seq, out) ==
    IF fault = "insert_session_event" THEN Return(FALSE, s, e, seq, <<>>, out)
    ELSE LET e1 == insert_session_event(e, session_event)
             args == [session |-> session, session_event |-> session_event]
             spawned == IF is_some(runner) THEN Runner_execute(unwrap(runner), args).spawned
                        ELSE <<>>
         IN Return(TRUE, s, e1, seq, spawned, out)

\* start_new_session that inserts the session and no Started event.
start_new_session_without_event(s, e, args, runner, fault, t, seq) ==
    LET session == Session_from(args, t, seq)
        out == <<[text |-> "Started a new {} session.", kind |-> SessionKind_to_string(session.kind)]>>
    IN IF fault = "insert_session" THEN Return(FALSE, s, e, seq + 1, <<>>, <<>>)
       ELSE Return(TRUE, insert_session(s, session), e, seq + 1, <<>>, out)

\* start_new_session whose Started event keeps the nil session_id of SessionEvent::default.
start_new_session_default_event(s, e, args, runner, fault, t, seq) ==
    LET session == Session_from(args, t, seq)
        out == <<[text |-> "Started a new {} session.", kind |-> SessionKind_to_string(session.kind)]>>
    IN IF fault = "insert_session" THEN Return(FALSE, s, e, seq + 1, <<>>, <<>>)
       ELSE insert_and_dispatch(insert_session(s, session), e, session,
                                SessionEvent_default(t, seq + 1),
                                runner, fault, seq + 2, out)

\* StartCommand::execute, the arm that inserts a session and starts it.
start_new_session(s, e, args, runner, fault, t, seq) ==
    LET session == Session_from(args, t, seq)
        out == <<[text |-> "Started a new {} session.", kind |-> SessionKind_to_string(session.kind)]>>
    IN IF fault = "insert_session" THEN Return(FALSE, s, e, seq + 1, <<>>, <<>>)
       ELSE insert_and_dispatch(insert_session(s, session), e, session,
                                SessionEvent_started(session.id, t, seq + 1),
                                runner, fault, seq + 2, out)

\* start_match without the arm for a running session: every event but Paused starts anew.
start_match_no_running_arm(result) ==
    IF result = <<>> THEN "new_session"
    ELSE CASE result[1].kind = "Paused" -> "resume"
           [] OTHER -> "new_session"

\* start_match with Resumed moved to the arm of Paused.
start_match_resumes_resumed(result) ==
    IF result = <<>> THEN "new_session"
    ELSE CASE result[1].kind = "Started" -> "already_running"
           [] result[1].kind \in {"Aborted", "Completed"} -> "new_session"
           [] result[1].kind \in {"Resumed", "Paused"} -> "resume"

\* start_match with Started moved to the arm of Paused.
start_match_resumes_started(result) ==
    IF result = <<>> THEN "new_session"
    ELSE CASE result[1].kind = "Resumed" -> "already_running"
           [] result[1].kind \in {"Aborted", "Completed"} -> "new_session"
           [] result[1].kind \in {"Started", "Paused"} -> "resume"

\* The match of StartCommand::execute on the latest event: which arm runs.
start_match(result) ==
    IF result = <<>> THEN "new_session"
    ELSE CASE result[1].kind \in {"Started", "Resumed"} -> "already_running"
           [] result[1].kind \in {"Aborted", "Completed"} -> "new_session"
           [] result[1].kind = "Paused" -> "resume"

\* StartCommand::execute
StartCommand_execute(s, e, args, runner, fault, t, seq) ==
    IF fault = "list_session_events" THEN Return(FALSE, s, e, seq, <<>>, <<>>)
    ELSE LET result == list_session_events(e, ListSessionEventsArgs_first)
             arm == start_match(result) IN
    IF arm = "new_session" THEN start_new_session(s, e, args, runner, fault, t, seq)
    ELSE LET found == get_session_by_id(s, result[1].session_id) IN
    IF fault = "get_session_by_id" \/ ~is_some(found) THEN Return(FALSE, s, e, seq, <<>>, <<>>)
    ELSE LET session == unwrap(found)
             kind == SessionKind_to_string(session.kind) IN
    IF arm = "already_running"
    THEN Return(TRUE, s, e, seq, <<>>, <<[text |-> "A {} session is already running.", kind |-> kind]>>)
    ELSE insert_and_dispatch(s, e, session, SessionEvent_resumed(session.id, t, seq),
                             runner, fault, seq + 1,
                             <<[text |-> "Resumed the {} session.", kind |-> kind]>>)

\* stop_match with Resumed moved to the arm of Paused.
stop_match_resumed_as_paused(result, reset) ==
    IF result = <<>> THEN "no_session"
    ELSE CASE result[1].kind = "Started" -> IF reset THEN "abort" ELSE "pause"
           [] result[1].kind \in {"Resumed", "Paused"} -> IF reset THEN "abort" ELSE "already_paused"
           [] result[1].kind \in {"Aborted", "Completed"} -> "not_active"

\* stop_match whose Paused arm does not look at args.reset.
stop_match_paused_ignores_reset(result, reset) ==
    IF result = <<>> THEN "no_session"
    ELSE CASE result[1].kind \in {"Started", "Resumed"} -> IF reset THEN "abort" ELSE "pause"
           [] result[1].kind = "Paused" -> "already_paused"
           [] result[1].kind \in {"Aborted", "Completed"} -> "not_active"

\* stop_match with Paused moved to the arm of Started and Resumed.
stop_match_no_paused_arm(result, reset) ==
    IF result = <<>> THEN "no_session"
    ELSE CASE result[1].kind \in {"Started", "Resumed", "Paused"} -> IF reset THEN "abort" ELSE "pause"
           [] result[1].kind \in {"Aborted", "Completed"} -> "not_active"

\* stop_match whose Aborted | Completed arm aborts on --reset.
stop_match_reset_aborts_terminal(result, reset) ==
    IF result = <<>> THEN "no_session"
    ELSE CASE result[1].kind \in {"Started", "Resumed"} -> IF reset THEN "abort" ELSE "pause"
           [] result[1].kind = "Paused" -> IF reset THEN "abort" ELSE "already_paused"
           [] result[1].kind \in {"Aborted", "Completed"} -> IF reset THEN "abort" ELSE "not_active"

\* stop_match whose Aborted | Completed arm pauses when --reset is not given.
stop_match_pauses_terminal(result, reset) ==
    IF result = <<>> THEN "no_session"
    ELSE CASE result[1].kind \in {"Started", "Resumed"} -> IF reset THEN "abort" ELSE "pause"
           [] result[1].kind = "Paused" -> IF reset THEN "abort" ELSE "already_paused"
           [] result[1].kind \in {"Aborted", "Completed"} -> IF reset THEN "not_active" ELSE "pause"

\* The match of StopCommand::execute on the latest event and args.reset: which arm runs.
stop_match(result, reset) ==
    IF result = <<>> THEN "no_session"
    ELSE CASE result[1].kind \in {"Started", "Resumed"} -> IF reset THEN "abort" ELSE "pause"
           [] result[1].kind = "Paused" -> IF reset THEN "abort" ELSE "already_paused"
           [] result[1].kind \in {"Aborted", "Completed"} -> "not_active"

\* StopCommand::execute that leaves `session` the Session::default() it was initialised
\* with when it aborts.
StopCommand_execute_placeholder_session(s, e, args, runner, fault, t, seq) ==
    IF fault = "list_session_events" THEN Return(FALSE, s, e, seq, <<>>, <<>>)
    ELSE LET result == list_session_events(e, ListSessionEventsArgs_first)
             arm == stop_match(result, args.reset) IN
    IF arm = "no_session"
    THEN Return(TRUE, s, e, seq, <<>>, <<[text |-> "No active session found.", kind |-> ""]>>)
    ELSE LET found == get_session_by_id(s, result[1].session_id) IN
    IF fault = "get_session_by_id" \/ ~is_some(found) THEN Return(FALSE, s, e, seq, <<>>, <<>>)
    ELSE LET session == unwrap(found)
             kind == SessionKind_to_string(session.kind) IN
    CASE arm = "abort" ->
           insert_and_dispatch(s, e, Session_default(t, seq),
                               SessionEvent_aborted(session.id, t, seq + 1),
                               runner, fault, seq + 2,
                               <<[text |-> "Aborted the {} session.", kind |-> kind]>>)
      [] arm = "pause" ->
           insert_and_dispatch(s, e, session, SessionEvent_paused(session.id, t, seq),
                               runner, fault, seq + 1,
                               <<[text |-> "Paused the {} session.", kind |-> kind]>>)
      [] arm = "already_paused" ->
           Return(TRUE, s, e, seq, <<>>, <<[text |-> "The {} session is already paused.", kind |-> kind]>>)
      [] arm = "not_active" ->
           Return(TRUE, s, e, seq, <<>>, <<[text |-> "No active {} session to stop.", kind |-> kind]>>)

\* StopCommand::execute
StopCommand_execute(s, e, args, runner, fault, t, seq) ==
    IF fault = "list_session_events" THEN Return(FALSE, s, e, seq, <<>>, <<>>)
    ELSE LET result == list_session_events(e, ListSessionEventsArgs_first)
             arm == stop_match(result, args.reset) IN
    IF arm = "no_session"
    THEN Return(TRUE, s, e, seq, <<>>, <<[text |-> "No active session found.", kind |-> ""]>>)
    ELSE LET found == get_session_by_id(s, result[1].session_id) IN
    IF fault = "get_session_by_id" \/ ~is_some(found) THEN Return(FALSE, s, e, seq, <<>>, <<>>)
    ELSE LET session == unwrap(found)
             kind == SessionKind_to_string(session.kind) IN
    CASE arm = "abort" ->
           insert_and_dispatch(s, e, session, SessionEvent_aborted(session.id, t, seq),
                               runner, fault, seq + 1,
                               <<[text |-> "Aborted the {} session.", kind |-> kind]>>)
      [] arm = "pause" ->
           insert_and_dispatch(s, e, session, SessionEvent_paused(session.id, t, seq),
                               runner, fault, seq + 1,
                               <<[text |-> "Paused the {} session.", kind |-> kind]>>)
      [] arm = "already_paused" ->
           Return(TRUE, s, e, seq, <<>>, <<[text |-> "The {} session is already paused.", kind |-> kind]>>)
      [] arm = "not_active" ->
           Return(TRUE, s, e, seq, <<>>, <<[text |-> "No active {} session to stop.", kind |-> kind]>>)

\* enum SessionState
SessionState == {"None", "Running", "Paused", "Completed", "Aborted"}

\* #[serde(rename_all = "lowercase")] of SessionState: the name a state is printed under.
SessionState_serialize(state) ==
    CASE state = "None" -> "none"
      [] state = "Running" -> "running"
      [] state = "Paused" -> "paused"
      [] state = "Completed" -> "completed"
      [] state = "Aborted" -> "aborted"

\* SessionState::from that takes Paused for a running session.
SessionState_from_paused_running(kind) ==
    CASE kind \in {"Started", "Resumed", "Paused"} -> "Running"
      [] kind = "Completed" -> "Completed"
      [] kind = "Aborted" -> "Aborted"

\* SessionState::from that takes Completed for a running session.
SessionState_from_completed_running(kind) ==
    CASE kind \in {"Started", "Resumed", "Completed"} -> "Running"
      [] kind = "Paused" -> "Paused"
      [] kind = "Aborted" -> "Aborted"

\* impl From<&SessionEventKind> for SessionState
SessionState_from(kind) ==
    CASE kind \in {"Started", "Resumed"} -> "Running"
      [] kind = "Paused" -> "Paused"
      [] kind = "Completed" -> "Completed"
      [] kind = "Aborted" -> "Aborted"

\* SessionStatus::default as #[derive(Default)] would give it: an empty kind.
SessionStatus_default_derived ==
    [kind |-> "", state |-> "None", planned_secs |-> 0, elapsed_secs |-> 0,
     remaining_secs |-> 0]

\* impl Default for SessionStatus
SessionStatus_default ==
    [kind |-> "none", state |-> "None", planned_secs |-> 0, elapsed_secs |-> 0,
     remaining_secs |-> 0]

\* The replay loop without the take() of session_started_at: a Paused, Aborted or Completed
\* event adds its range and leaves the range open.
RECURSIVE replay_without_take(_, _, _, _)
replay_without_take(result, i, session_started_at, session_elapsed_time) ==
    IF i = 0
    THEN [session_started_at |-> session_started_at,
          session_elapsed_time |-> session_elapsed_time]
    ELSE IF result[i].kind \in {"Started", "Resumed"}
         THEN replay_without_take(result, i - 1, Some(result[i].created_at), session_elapsed_time)
         ELSE IF is_some(session_started_at)
              THEN replay_without_take(result, i - 1, session_started_at,
                          session_elapsed_time + (result[i].created_at - unwrap(session_started_at)))
              ELSE replay_without_take(result, i - 1, None, session_elapsed_time)

\* The replay loop of StatusCommand::execute over result.iter().rev(): `i` runs from the
\* last element of `result` (the oldest event) down to the first.  Gives the open range's
\* start, if any, and the time elapsed in the closed ranges.
RECURSIVE replay(_, _, _, _)
replay(result, i, session_started_at, session_elapsed_time) ==
    IF i = 0
    THEN [session_started_at |-> session_started_at,
          session_elapsed_time |-> session_elapsed_time]
    ELSE IF result[i].kind \in {"Started", "Resumed"}
         THEN replay(result, i - 1, Some(result[i].created_at), session_elapsed_time)
         ELSE IF is_some(session_started_at)
              THEN replay(result, i - 1, None,
                          session_elapsed_time + (result[i].created_at - unwrap(session_started_at)))
              ELSE replay(result, i - 1, None, session_elapsed_time)

\* elapsed_time without the `if let Some(since_start)` that follows the loop.
elapsed_time_ignores_open_range(result, t) ==
    replay(result, Len(result), None, 0).session_elapsed_time

\* The time elapsed in a session at time t, from its events newest first.
elapsed_time(result, t) ==
    LET r == replay(result, Len(result), None, 0)
    IN IF is_some(r.session_started_at)
       THEN r.session_elapsed_time + (t - unwrap(r.session_started_at))
       ELSE r.session_elapsed_time

\* session_status without the .max(0) on the elapsed seconds.
session_status_unclamped_elapsed(session, result, t) ==
    LET session_planned_secs == num_seconds(session.planned_duration)
        session_elapsed_secs == num_seconds(elapsed_time(result, t))
    IN [kind |-> SessionKind_to_string(session.kind),
        state |-> IF result = <<>> THEN "None" ELSE SessionState_from(result[1].kind),
        planned_secs |-> session_planned_secs,
        elapsed_secs |-> session_elapsed_secs,
        remaining_secs |-> Max(session_planned_secs - session_elapsed_secs, 0)]

\* session_status that takes the state from result.last(), the oldest event.
session_status_state_of_oldest(session, result, t) ==
    LET session_planned_secs == num_seconds(session.planned_duration)
        session_elapsed_secs == Max(num_seconds(elapsed_time(result, t)), 0)
    IN [kind |-> SessionKind_to_string(session.kind),
        state |-> IF result = <<>> THEN "None" ELSE SessionState_from(result[Len(result)].kind),
        planned_secs |-> session_planned_secs,
        elapsed_secs |-> session_elapsed_secs,
        remaining_secs |-> Max(session_planned_secs - session_elapsed_secs, 0)]

\* The SessionStatus that StatusCommand::execute builds for a session, before auto-completion.
session_status(session, result, t) ==
    LET session_planned_secs == num_seconds(session.planned_duration)
        session_elapsed_secs == Max(num_seconds(elapsed_time(result, t)), 0)
    IN [kind |-> SessionKind_to_string(session.kind),
        state |-> IF result = <<>> THEN "None" ELSE SessionState_from(result[1].kind),
        planned_secs |-> session_planned_secs,
        elapsed_secs |-> session_elapsed_secs,
        remaining_secs |-> Max(session_planned_secs - session_elapsed_secs, 0)]

\* needs_completion that waits for a remaining time below zero.
needs_completion_below_zero(status) ==
    status.state = "Running" /\ status.remaining_secs < 0

\* needs_completion without the test of the state.
needs_completion_any_state(status) == status.remaining_secs = 0

\* needs_completion without the test of the remaining time.
needs_completion_ignores_remaining(status) == status.state = "Running"

\* The condition under which StatusCommand::execute completes the session.
needs_completion(status) ==
    status.state = "Running" /\ status.remaining_secs = 0

\* A --format template that MiniJinja fails to render.
BadTemplate == "{{ remaining_secs "

\* StatusCommand::render: whether it returns Ok.
render_ok(args) ==
    args.output = "Json" \/ ~is_some(args.format) \/ unwrap(args.format) # BadTemplate

\* StatusCommand::render, then the Ok(()) of StatusCommand::execute: the status is printed
\* unless rendering fails.
render(s, e, status, args, fault, seq, spawned) ==
    IF fault = "render" \/ ~render_ok(args) THEN Return(FALSE, s, e, seq, spawned, <<>>)
    ELSE Return(TRUE, s, e, seq, spawned, <<status>>)

\* StatusCommand::execute
StatusCommand_execute(s, e, args, runner, fault, t, seq) ==
    IF fault = "list_sessions" THEN Return(FALSE, s, e, seq, <<>>, <<>>)
    ELSE LET sessions_result == list_sessions(s, ListSessionsArgs_first) IN
    IF sessions_result = <<>> THEN render(s, e, SessionStatus_default, args, fault, seq, <<>>)
    ELSE IF fault = "list_session_events" THEN Return(FALSE, s, e, seq, <<>>, <<>>)
    ELSE LET session == sessions_result[1]
             result == list_session_events(e, ListSessionEventsArgs_with_session_id(session.id))
             status == session_status(session, result, t) IN
    IF ~needs_completion(status) THEN render(s, e, status, args, fault, seq, <<>>)
    ELSE IF fault = "insert_session_event" THEN Return(FALSE, s, e, seq + 1, <<>>, <<>>)
    ELSE LET session_event == SessionEvent_completed(session.id, t, seq)
             e1 == insert_session_event(e, session_event)
             completed == [status EXCEPT !.state = SessionState_from(session_event.kind)]
             hook == [session |-> session, session_event |-> session_event]
             spawned == IF is_some(runner) THEN Runner_execute(unwrap(runner), hook).spawned
                        ELSE <<>>
         IN render(s, e1, completed, args, fault, seq + 1, spawned)

----------------------------------------------------------------------------
\* The database file between processes.

\* The lock is free and no command process is under way: the commands run one at a time.
NoProcess == [lock |-> None, proc |-> <<>>, order |-> <<>>]

----------------------------------------------------------------------------
\* main.rs: one process per command, the command inside one immediate transaction.

\* The command record kept in `last`: the command, how it ended, the tables it found and the
\* clock reading it ran at.
Ran(op, args, file, runner, fault, r) ==
    [op |-> op, args |-> args, file |-> file, runner |-> runner, fault |-> fault,
     ok |-> r.ok /\ fault # "commit", out |-> r.out, spawned |-> r.spawned,
     sessions |-> sessions, events |-> events, at |-> now]

\* main that commits whatever the command returned.
main_commits_on_error(op, args, file, runner, fault, r) ==
    /\ sessions' = r.sessions /\ events' = r.events
    /\ nextSeq' = r.seq
    /\ hooks' = hooks \o r.spawned
    /\ last' = Ran(op, args, file, runner, fault, r)
    /\ Cardinality(events') <= MaxEvents
    /\ nextSeq' <= MaxSeq
    /\ UNCHANGED <<now, tx>>

\* main after the command returned `r`: tx.commit() when it is Ok, and the rollback of the
\* dropped transaction when it is Err or the commit fails.  Hook processes stay spawned.
main(op, args, file, runner, fault, r) ==
    /\ IF r.ok /\ fault # "commit"
       THEN sessions' = r.sessions /\ events' = r.events
       ELSE UNCHANGED <<sessions, events>>
    /\ nextSeq' = r.seq
    /\ hooks' = hooks \o r.spawned
    /\ last' = Ran(op, args, file, runner, fault, r)
    /\ Cardinality(events') <= MaxEvents
    /\ nextSeq' <= MaxSeq
    /\ UNCHANGED <<now, tx>>

\* `pomodoro start`
Start(args, file, runner, fault) ==
    main("start", args, file, runner, fault,
         StartCommand_execute(sessions, events, with_config(args, ProgramConfig_load(file)),
                              runner, fault, now, nextSeq))

\* `pomodoro stop`
Stop(args, runner, fault) ==
    main("stop", args, None, runner, fault,
         StopCommand_execute(sessions, events, args, runner, fault, now, nextSeq))

\* `pomodoro status`
Status(args, runner, fault) ==
    main("status", args, None, runner, fault,
         StatusCommand_execute(sessions, events, args, runner, fault, now, nextSeq))

\* Time passes between two commands.
Tick ==
    /\ now < MaxNow
    /\ now' = now + 1
    /\ UNCHANGED <<sessions, events, nextSeq, hooks, last, tx>>

\* The state after Database::migrate on a new database: both tables empty.
Init ==
    /\ sessions = {}
    /\ events = {}
    /\ now = 0
    /\ nextSeq = 0
    /\ hooks = <<>>
    /\ last = [op |-> "none", args |-> None, file |-> None, runner |-> None, fault |-> "none",
               ok |-> TRUE, out |-> <<>>, spawned |-> <<>>, sessions |-> {}, events |-> {},
               at |-> 0]
    /\ tx = NoProcess

\* --duration values, in ticks: none given, or one second.
Durations == {None, Some(TicksPerSec)}

\* Configuration files: none readable.
ConfigFiles == {None}

\* pomodoro start [--mode] [--duration]
StartCommandArgs == [mode : StartMode, duration : Durations]

\* pomodoro stop [--reset]
StopCommandArgs == [reset : BOOLEAN]

\* pomodoro status [--output] [--format]
StatusCommandArgs == [output : StatusOutput, format : {None}]

\* The Runner of main: one whose hook scripts exist and run.
Runners == {Some("ok")}

StartStep == \E args \in StartCommandArgs, file \in ConfigFiles, runner \in Runners :
                 Start(args, file, runner, "none")

StopStep == \E args \in StopCommandArgs, runner \in Runners : Stop(args, runner, "none")

StatusStep == \E args \in StatusCommandArgs, runner \in Runners : Status(args, runner, "none")

Next == StartStep \/ StopStep \/ StatusStep \/ Tick

Spec == Init /\ [][Next]_vars

----------------------------------------------------------------------------
\* The commands under storage and render errors, run with --no-hooks: a call that comes
\* after the command's first write may fail.

\* The calls of each command that can come after one of its writes: start inserts the event
\* after the session, status renders after it inserted Completed, and each command is
\* committed after all its writes.
StartFaults == {"insert_session_event", "commit"}

StopFaults == {"commit"}

StatusFaults == {"render", "commit"}

\* --no-hooks: no Runner.
NoHooks == {None}

\* `pomodoro start --duration 1s`, with or without a failing call.
StartFault ==
    \E fault \in StartFaults \cup {"none"}, runner \in NoHooks :
        Start([mode |-> "Focus", duration |-> Some(TicksPerSec)], None, runner, fault)

\* `pomodoro stop [--reset]`, with or without a failing call.
StopFault ==
    \E args \in StopCommandArgs, fault \in StopFaults \cup {"none"}, runner \in NoHooks :
        Stop(args, runner, fault)

\* `pomodoro status --output json`, with or without a failing call.
StatusFault ==
    \E fault \in StatusFaults \cup {"none"}, runner \in NoHooks :
        Status([output |-> "Json", format |-> None], runner, fault)

NextFault == StartFault \/ StopFault \/ StatusFault \/ Tick

SpecFault == Init /\ [][NextFault]_vars

----------------------------------------------------------------------------
\* The commands with their hooks, under storage and render errors: the insert of the event,
\* which comes before the hook, may fail, and so may what comes after the hook of status, its
\* render and the commit.

\* The most hook processes spawned in one behaviour.
MaxHooks == 3

\* The call that comes before the hook.
BeforeHook == {"insert_session_event"}

\* `pomodoro start --duration 1s`, with or without a failing insert.
StartDispatch ==
    /\ \E fault \in BeforeHook \cup {"none"}, runner \in Runners :
          Start([mode |-> "Focus", duration |-> Some(TicksPerSec)], None, runner, fault)
    /\ Len(hooks') <= MaxHooks

\* `pomodoro stop [--reset]`, with or without a failing insert.
StopDispatch ==
    /\ \E args \in StopCommandArgs, fault \in BeforeHook \cup {"none"}, runner \in Runners :
          Stop(args, runner, fault)
    /\ Len(hooks') <= MaxHooks

\* `pomodoro status --output json` with or without a failing insert or commit, and
\* `pomodoro status --format '{{ remaining_secs '`, whose template does not parse.
StatusDispatch ==
    /\ \/ \E fault \in BeforeHook \cup {"commit", "none"}, runner \in Runners :
             Status([output |-> "Json", format |-> None], runner, fault)
       \/ \E runner \in Runners :
             Status([output |-> "Text", format |-> Some(BadTemplate)], runner, "none")
    /\ Len(hooks') <= MaxHooks

NextDispatch == StartDispatch \/ StopDispatch \/ StatusDispatch \/ Tick

SpecDispatch == Init /\ [][NextDispatch]_vars

----------------------------------------------------------------------------
\* Two command processes on one database file.  A process begins its transaction, runs its
\* command inside it, and commits; the steps of the two processes interleave freely.

\* The processes.
Procs == {1, 2}

\* Database::transaction with TransactionBehavior::Deferred: BEGIN takes no lock.
transaction_deferred(lock, p) == Some(lock)

\* Database::transaction: BEGIN IMMEDIATE takes the write lock of the database file and
\* gives Some(lock as it is then); it fails, None, while another process holds the lock.
transaction(lock, p) == IF lock = None THEN Some(Some(p)) ELSE None

\* The command lines of the processes, all with --no-hooks.
Commands ==
    {[op |-> "start", args |-> [mode |-> "Focus", duration |-> Some(TicksPerSec)]],
     [op |-> "stop", args |-> [reset |-> FALSE]],
     [op |-> "stop", args |-> [reset |-> TRUE]],
     [op |-> "status", args |-> [output |-> "Json", format |-> None]]}

\* The match on program.command of main: the command run on the tables its transaction sees.
dispatch(cmd, s, e, t, seq) ==
    CASE cmd.op = "start" ->
           StartCommand_execute(s, e, with_config(cmd.args, ProgramConfig_load(None)),
                                None, "none", t, seq)
      [] cmd.op = "stop" -> StopCommand_execute(s, e, cmd.args, None, "none", t, seq)
      [] cmd.op = "status" -> StatusCommand_execute(s, e, cmd.args, None, "none", t, seq)

\* A process that has not begun.
Idle == [pc |-> "idle", cmd |-> None, t |-> 0, seq |-> 0, ok |-> TRUE,
         sessions |-> {}, events |-> {}]

\* database.transaction()? of main: the process holds the transaction.
Begin(p, cmd) ==
    /\ tx.proc[p].pc = "idle"
    /\ is_some(transaction(tx.lock, p))
    /\ tx' = [tx EXCEPT !.lock = unwrap(transaction(tx.lock, p)),
                        !.proc[p] = [Idle EXCEPT !.pc = "begun", !.cmd = Some(cmd)]]
    /\ UNCHANGED <<sessions, events, now, nextSeq, hooks, last>>

\* database.transaction()? of main returns the error: the process exits, its command not run.
Busy(p, cmd) ==
    /\ tx.proc[p].pc = "idle"
    /\ ~is_some(transaction(tx.lock, p))
    /\ tx' = [tx EXCEPT !.proc[p] = [Idle EXCEPT !.pc = "failed", !.cmd = Some(cmd)]]
    /\ UNCHANGED <<sessions, events, now, nextSeq, hooks, last>>

\* command.execute(&args) of main: the command reads the committed tables and inserts its
\* rows, which stay in its transaction.
Execute(p) ==
    /\ tx.proc[p].pc = "begun"
    /\ LET r == dispatch(unwrap(tx.proc[p].cmd), sessions, events, now, nextSeq)
       IN /\ tx' = [tx EXCEPT !.proc[p] = [@ EXCEPT !.pc = "executed", !.t = now,
                                                     !.seq = nextSeq, !.ok = r.ok,
                                                     !.sessions = r.sessions \ sessions,
                                                     !.events = r.events \ events]]
          /\ nextSeq' = r.seq
          /\ hooks' = hooks \o r.spawned
    /\ nextSeq' <= MaxSeq
    /\ UNCHANGED <<sessions, events, now, last>>

\* tx.commit()? of main when the command returned Ok, the drop of the transaction when it
\* returned Err: the rows become visible, or are gone, and the lock is released.
Commit(p) ==
    /\ tx.proc[p].pc = "executed"
    /\ IF tx.proc[p].ok
       THEN /\ sessions' = sessions \cup tx.proc[p].sessions
            /\ events' = events \cup tx.proc[p].events
       ELSE UNCHANGED <<sessions, events>>
    /\ tx' = [tx EXCEPT !.lock = IF @ = Some(p) THEN None ELSE @,
                        !.proc[p] = [@ EXCEPT !.pc = "done"],
                        !.order = Append(@, p)]
    /\ Cardinality(events') <= MaxEvents
    /\ UNCHANGED <<now, nextSeq, hooks, last>>

\* The stores the two processes find: empty, a running session, a paused session.
StoreEmpty == Return(TRUE, {}, {}, 0, <<>>, <<>>)

StoreRunning == dispatch([op |-> "start", args |-> [mode |-> "Focus", duration |-> Some(TicksPerSec)]],
                         StoreEmpty.sessions, StoreEmpty.events, 0, StoreEmpty.seq)

StorePaused == dispatch([op |-> "stop", args |-> [reset |-> FALSE]],
                        StoreRunning.sessions, StoreRunning.events, 0, StoreRunning.seq)

InitConc ==
    \E store \in {StoreEmpty, StoreRunning, StorePaused} :
        /\ sessions = store.sessions
        /\ events = store.events
        /\ now = 0
        /\ nextSeq = store.seq
        /\ hooks = <<>>
        /\ last = [op |-> "none", args |-> None, file |-> None, runner |-> None,
                   fault |-> "none", ok |-> TRUE, out |-> <<>>, spawned |-> <<>>,
                   sessions |-> sessions, events |-> events, at |-> 0]
        /\ tx = [lock |-> None, proc |-> [p \in Procs |-> Idle], order |-> <<>>,
                 base |-> [sessions |-> sessions, events |-> events]]

BeginStep == \E p \in Procs, cmd \in Commands : Begin(p, cmd)

BusyStep == \E p \in Procs, cmd \in Commands : Busy(p, cmd)

ExecuteStep == \E p \in Procs : Execute(p)

CommitStep == \E p \in Procs : Commit(p)

NextConc == BeginStep \/ BusyStep \/ ExecuteStep \/ CommitStep \/ Tick

SpecConc == InitConc /\ [][NextConc]_vars

----------------------------------------------------------------------------
\* One command as a function of the store, the clock and the Runner: the Runner is none
\* (--no-hooks), or one whose hooks directory makes the dispatch end in one of the outcomes
\* of Runner::execute.

HookRunners == {None} \cup {Some(outcome) : outcome \in HookOutcome}

\* A store whose session was aborted.
StoreAborted == dispatch([op |-> "stop", args |-> [reset |-> TRUE]],
                         StorePaused.sessions, StorePaused.events, 0, StorePaused.seq)

\* The stores the command finds: empty, or one session, of one second, that is running,
\* paused or aborted; its events were recorded at clock reading 0.
HookStores == {StoreEmpty, StoreRunning, StorePaused, StoreAborted}

\* Any of the stores, at any clock reading.
InitHook ==
    \E store \in HookStores :
        /\ sessions = store.sessions
        /\ events = store.events
        /\ now \in 0..MaxNow
        /\ nextSeq = store.seq
        /\ hooks = <<>>
        /\ last = [op |-> "none", args |-> None, file |-> None, runner |-> None,
                   fault |-> "none", ok |-> TRUE, out |-> <<>>, spawned |-> <<>>,
                   sessions |-> sessions, events |-> events, at |-> 0]
        /\ tx = NoProcess

\* `pomodoro [--no-hooks] start --duration 1s`
StartHook ==
    /\ last.op = "none"
    /\ \E runner \in HookRunners :
          Start([mode |-> "Focus", duration |-> Some(TicksPerSec)], None, runner, "none")

\* `pomodoro [--no-hooks] stop [--reset]`
StopHook ==
    /\ last.op = "none"
    /\ \E args \in StopCommandArgs, runner \in HookRunners : Stop(args, runner, "none")

\* `pomodoro [--no-hooks] status --output json`
StatusHook ==
    /\ last.op = "none"
    /\ \E runner \in HookRunners :
          Status([output |-> "Json", format |-> None], runner, "none")

NextHook == StartHook \/ StopHook \/ StatusHook

SpecHook == InitHook /\ [][NextHook]_vars

----------------------------------------------------------------------------
\* The commands on an inconsistent store: the globally latest event references a session
\* that has no row, as a database file that lost a session row holds.

\* An event row of the given kind whose session has no row; it is the newest of the store.
OrphanEvent(kind, seq) ==
    [session_event_id |-> now_v7(0, seq + 1), session_event_kind |-> kind,
     session_id |-> now_v7(0, seq), created_at |-> 0]

\* A store of the commands, empty or with an aborted session, and one orphan event of any
\* kind after it.
InitOrphan ==
    \E store \in {StoreEmpty, StoreAborted},
       kind \in {SessionEventKind_to_string(k) : k \in SessionEventKind} :
        /\ sessions = store.sessions
        /\ events = store.events \cup {OrphanEvent(kind, store.seq)}
        /\ now = 0
        /\ nextSeq = store.seq + 2
        /\ hooks = <<>>
        /\ last = [op |-> "none", args |-> None, file |-> None, runner |-> None,
                   fault |-> "none", ok |-> TRUE, out |-> <<>>, spawned |-> <<>>,
                   sessions |-> sessions, events |-> events, at |-> 0]
        /\ tx = NoProcess

NextOrphan == StartStep \/ StopStep \/ StatusStep \/ Tick

SpecOrphan == InitOrphan /\ [][NextOrphan]_vars

----------------------------------------------------------------------------
\* start with every combination of --mode, --duration and configuration file.

\* --duration values, in ticks: none given, one second, a second and a fraction.
DurationArgs == {None, Some(TicksPerSec), Some(TicksPerSec + 1)}

\* Configuration files: none readable, or one that sets a focus duration of two seconds
\* and a fraction and a break duration of three seconds.
ConfigFilesRead ==
    {None, Some([focus_duration |-> 2 * TicksPerSec + 1, break_duration |-> 3 * TicksPerSec])}

\* `pomodoro start [--mode] [--duration]` with or without a configuration file
StartConfig ==
    \E args \in [mode : StartMode, duration : DurationArgs], file \in ConfigFilesRead,
       runner \in Runners :
        Start(args, file, runner, "none")

NextConfig == StartConfig \/ StopStep

SpecConfig == Init /\ [][NextConfig]_vars

----------------------------------------------------------------------------
\* The commands over a longer time: sessions of one second, and a clock that runs on after
\* the second is over.

\* The last clock reading.
MaxLate == 4

\* `pomodoro start --duration 1s`
StartLate ==
    \E runner \in Runners :
        Start([mode |-> "Focus", duration |-> Some(TicksPerSec)], None, runner, "none")

\* Time passes between two commands.
TickLate ==
    /\ now < MaxLate
    /\ now' = now + 1
    /\ UNCHANGED <<sessions, events, nextSeq, hooks, last, tx>>

NextLate == StartLate \/ StopStep \/ StatusStep \/ TickLate

SpecLate == Init /\ [][NextLate]_vars

----------------------------------------------------------------------------
\* The commands under a system clock that can be set back.  Uuid::now_v7 and Utc::now read
\* the wall clock of the process that runs the command; between two commands the clock may
\* have been adjusted to an earlier reading.

----------------------------------------------------------------------------
\* The commands without stop, under fairness: the status line of tmux runs `pomodoro status`
\* again and again, and the clock keeps advancing.

\* `pomodoro start --duration 1s`, run while the clock, the event store and the identifiers
\* of the model leave room for the planned second and for the session's last event.
StartFair ==
    /\ now + TicksPerSec <= MaxLate
    /\ Cardinality(events) + 2 <= MaxEvents
    /\ nextSeq + 3 <= MaxSeq
    /\ \E mode \in StartMode, runner \in Runners :
          Start([mode |-> mode, duration |-> Some(TicksPerSec)], None, runner, "none")

NextFair == StartFair \/ StatusStep \/ TickLate

\* ENABLED <<StatusStep>>_vars as a function of the state: some `pomodoro status` can be run
\* within the bounds and changes the store, the identifiers, the hook processes or the
\* record of the last command.
StatusStepEnabled ==
    \E args \in StatusCommandArgs, runner \in Runners :
        LET r == StatusCommand_execute(sessions, events, args, runner, "none", now, nextSeq)
            committed == IF r.ok THEN r.events ELSE events
        IN /\ Cardinality(committed) <= MaxEvents
           /\ r.seq <= MaxSeq
           /\ \/ r.ok /\ (r.sessions # sessions \/ r.events # events)
              \/ r.seq # nextSeq
              \/ r.spawned # <<>>
              \/ Ran("status", args, None, runner, "none", r) # last

\* WF_vars(StatusStep), written out as []<>~ENABLED <<A>>_vars \/ []<><<A>>_vars.
StatusIsRunAgainAndAgain == []<>~StatusStepEnabled \/ []<><<StatusStep>>_vars

SpecFair == Init /\ [][NextFair]_vars /\ WF_vars(TickLate) /\ StatusIsRunAgainAndAgain

----------------------------------------------------------------------------
\* The string codec of the two kinds on its own: Display writes the text stored in the kind
\* columns, TryFrom<&str> reads it back (FromSql hands it the column text as it is).

\* Column texts: the seven stored ones, and texts that are not: other cases, surrounding
\* blanks, cut or extended words, the variant names, the state names of status, the empty
\* text and the "unknown" of the unit tests.
Texts ==
    {"focus", "break", "started", "resumed", "paused", "aborted", "completed",
     "Focus", "Break", "Started", "Resumed", "Paused", "Aborted", "Completed",
     "FOCUS", "BREAK", "STARTED", "RESUMED", "PAUSED", "ABORTED", "COMPLETED",
     "focus ", " break", "started ", " resumed", "paused ", " aborted", "completed ",
     "focu", "brea", "start", "resume", "pause", "abort", "complete",
     "focused", "breaks", "starting", "none", "None", "running", "Running",
     "unknown", "", " ", "0", "1", "null"}

\* What a conversion is given: a column text, or a kind of one of the two enums.
CodecInputs ==
    [type : {"text"}, value : Texts]
        \cup [type : {"SessionKind"}, value : SessionKind]
        \cup [type : {"SessionEventKind"}, value : SessionEventKind]

\* The record of a conversion: what was given first, and the values produced since, in order.
Converted(op, input, ok, out) ==
    [op |-> op, args |-> input, file |-> None, runner |-> None, fault |-> "none",
     ok |-> ok, out |-> out, spawned |-> <<>>, sessions |-> {}, events |-> {}, at |-> 0]

\* An empty store and something to convert.
InitCodec ==
    /\ sessions = {}
    /\ events = {}
    /\ now = 0
    /\ nextSeq = 0
    /\ hooks = <<>>
    /\ \E input \in CodecInputs : last = Converted("none", input, TRUE, <<>>)
    /\ tx = NoProcess

\* The text at hand: the one given, or the one the last to_string wrote.
TextAtHand ==
    IF last.op = "none" THEN last.args.value ELSE last.out[Len(last.out)]

\* A text is at hand: one was given and is not parsed yet, or to_string has just written one.
HasText ==
    \/ last.op = "none" /\ last.args.type = "text"
    \/ last.op \in {"SessionKind::to_string", "SessionEventKind::to_string"}

\* kind.to_string() of a SessionKind (ToSql)
SessionKindToString ==
    /\ last.op = "none" /\ last.args.type = "SessionKind"
    /\ last' = Converted("SessionKind::to_string", last.args, TRUE,
                         <<SessionKind_to_string(last.args.value)>>)
    /\ UNCHANGED <<sessions, events, now, nextSeq, hooks, tx>>

\* kind.to_string() of a SessionEventKind (ToSql)
SessionEventKindToString ==
    /\ last.op = "none" /\ last.args.type = "SessionEventKind"
    /\ last' = Converted("SessionEventKind::to_string", last.args, TRUE,
                         <<SessionEventKind_to_string(last.args.value)>>)
    /\ UNCHANGED <<sessions, events, now, nextSeq, hooks, tx>>

\* SessionKind::try_from(text) (FromSql)
SessionKindTryFrom ==
    /\ HasText
    /\ LET result == SessionKind_try_from(TextAtHand)
       IN last' = Converted("SessionKind::try_from", last.args, is_some(result),
                            Append(last.out, result))
    /\ UNCHANGED <<sessions, events, now, nextSeq, hooks, tx>>

\* SessionEventKind::try_from(text) (FromSql)
SessionEventKindTryFrom ==
    /\ HasText
    /\ LET result == SessionEventKind_try_from(TextAtHand)
       IN last' = Converted("SessionEventKind::try_from", last.args, is_some(result),
                            Append(last.out, result))
    /\ UNCHANGED <<sessions, events, now, nextSeq, hooks, tx>>

NextCodec ==
    SessionKindToString \/ SessionEventKindToString \/ SessionKindTryFrom \/ SessionEventKindTryFrom

SpecCodec == InitCodec /\ [][NextCodec]_vars

\* The system clock is set back between two commands.
ClockSetBack ==
    /\ now > 0
    /\ now' = now - 1
    /\ UNCHANGED <<sessions, events, nextSeq, hooks, last, tx>>

NextSkew == StartStep \/ StopStep \/ StatusStep \/ Tick \/ ClockSetBack

SpecSkew == Init /\ [][NextSkew]_vars

----------------------------------------------------------------------------
\* The status command as a function of the store: it is run on one session whose event rows
\* are any rows at all, of any kinds in any order and with any timestamps, as a store
\* written under a clock that was set back and forth, or edited by hand, can hold.

\* The longest event log drawn.
MaxLog == 2

\* The kinds an event row can store.
StoredKinds == {SessionEventKind_to_string(kind) : kind \in SessionEventKind}

\* The `start` commands that created the session: a one-second focus session and a break of
\* the default length.
LogSessionArgs ==
    {[mode |-> "Focus", duration |-> Some(TicksPerSec)], [mode |-> "Break", duration |-> None]}

\* One session, any event rows for it, and any clock reading.
InitLog ==
    \E args \in LogSessionArgs, n \in 0..MaxLog :
        \E kinds \in [1..n -> StoredKinds], stamps \in [1..n -> 0..MaxNow] :
            LET session == Session_from(with_config(args, ProgramConfig_default), 0, 0)
            IN /\ sessions = insert_session({}, session)
               /\ events = {[session_event_id |-> <<0, i + 1>>,
                             session_event_kind |-> kinds[i],
                             session_id |-> session.id,
                             created_at |-> stamps[i]] : i \in 1..n}
               /\ now \in 0..MaxNow
               /\ nextSeq = n + 1
               /\ hooks = <<>>
               /\ last = [op |-> "none", args |-> None, file |-> None, runner |-> None,
                          fault |-> "none", ok |-> TRUE, out |-> <<>>, spawned |-> <<>>,
                          sessions |-> sessions, events |-> events, at |-> 0]
               /\ tx = NoProcess

NextLog == StatusStep

SpecLog == InitLog /\ [][NextLog]_vars

----------------------------------------------------------------------------
\* Vocabulary of the properties: the event log read straight from the table.

\* The row of the table with the greatest identifier.
Newest(tbl) ==
    CHOOSE r \in tbl : \A o \in tbl : ~Uuid_lt(r.session_event_id, o.session_event_id)

\* The stored kind of the globally latest event, "none" for an empty table.
LatestKind(tbl) == IF tbl = {} THEN "none" ELSE Newest(tbl).session_event_kind

\* The rows of one session.
EventsOf(tbl, session_id) == {r \in tbl : r.session_id = session_id}

\* A session is live when its newest event is not terminal.
Live(tbl, session_id) ==
    /\ EventsOf(tbl, session_id) # {}
    /\ LatestKind(EventsOf(tbl, session_id)) \in {"started", "resumed", "paused"}

\* The rows the last command added to each table.
NewEvents == events \ last.events

NewSessions == sessions \ last.sessions

\* The last command changed neither table.
StoreUnchanged == sessions = last.sessions /\ events = last.events

\* The last command appended exactly one event, of this kind, to the session that owned the
\* latest event before it, and touched nothing else.
AppendedToLatest(kind) ==
    /\ last.events \subseteq events
    /\ sessions = last.sessions
    /\ \E r \in events :
          /\ NewEvents = {r}
          /\ r.session_event_kind = kind
          /\ r.session_id = Newest(last.events).session_id
          /\ Newest(events) = r

----------------------------------------------------------------------------
\* Session state machine (spec 3, invariant 5; 4.1, the transition table).

\* The sessions whose newest event is Started, Resumed or Paused.
LiveSessions == {s \in sessions : Live(events, s.session_id)}

\* C1: at most one session is live at any time, and a Started event is appended only when
\* the store had no event or the globally latest event was Aborted or Completed.
C1_AtMostOneLiveSession ==
    /\ Cardinality(LiveSessions) <= 1
    /\ (\E r \in NewEvents : r.session_event_kind = "started")
          => LatestKind(last.events) \in {"none", "aborted", "completed"}

\* C1 witness: a second session was started after the first one ended, and it is the only
\* live one.
C1_Witness ==
    /\ Cardinality(sessions) = 2
    /\ Cardinality(LiveSessions) = 1
    /\ last.op = "start"
    /\ LatestKind(last.events) \in {"aborted", "completed"}
    /\ \E r \in NewEvents : r.session_event_kind = "started"

\* The precondition of the "new Session + Started" cells of the table.
StartsNewSession ==
    last.op = "start" /\ last.ok /\ LatestKind(last.events) \in {"none", "aborted", "completed"}

\* C2: Start, when the store has no event or the globally latest event is Aborted or
\* Completed, creates exactly one session, of the requested kind, and appends exactly one
\* Started event, which references that session.
C2_StartCreatesSessionAndStarted ==
    StartsNewSession =>
        /\ last.sessions \subseteq sessions
        /\ last.events \subseteq events
        /\ \E s \in sessions, r \in events :
              /\ NewSessions = {s}
              /\ NewEvents = {r}
              /\ s.session_kind = (IF last.args.mode = "Break" THEN "break" ELSE "focus")
              /\ r.session_event_kind = "started"
              /\ r.session_id = s.session_id
              /\ s.session_id \notin {o.session_id : o \in last.sessions}

\* C2 witness: a break session was started on a store whose latest event was terminal.
C2_Witness ==
    /\ StartsNewSession
    /\ last.args.mode = "Break"
    /\ LatestKind(last.events) \in {"aborted", "completed"}
    /\ Cardinality(sessions) = 2

\* The precondition of the "already running" cells of the table.
StartsWhileRunning == last.op = "start" /\ LatestKind(last.events) \in {"started", "resumed"}

\* C3: when the globally latest event is Started or Resumed, Start appends no event and
\* creates no session: both stores are the same before and after the command.
C3_StartWhileRunningIsNoOp == StartsWhileRunning => StoreUnchanged

\* C3 witness: a start command ran, and returned Ok, while the latest event was Resumed.
C3_Witness == StartsWhileRunning /\ last.ok /\ LatestKind(last.events) = "resumed"

\* The precondition of the "Resumed (same session)" cell of the table.
StartsWhilePaused == last.op = "start" /\ last.ok /\ LatestKind(last.events) = "paused"

\* C4: Start, when the globally latest event is Paused, appends exactly one Resumed event,
\* for the session of that Paused event, and creates no session, whatever mode and duration
\* were requested.
C4_StartWhilePausedResumes == StartsWhilePaused => AppendedToLatest("resumed")

\* C4 witness: `start --mode break --duration ..` resumed a paused focus session.
C4_Witness ==
    /\ StartsWhilePaused
    /\ last.args.mode = "Break"
    /\ is_some(last.args.duration)
    /\ \E s \in sessions : s.session_id = Newest(events).session_id /\ s.session_kind = "focus"

\* The precondition of the Paused cells of the Stop() column.
StopsWhileRunning ==
    /\ last.op = "stop" /\ last.ok /\ ~last.args.reset
    /\ LatestKind(last.events) \in {"started", "resumed"}

\* C5: Stop without reset, when the globally latest event is Started or Resumed, appends
\* exactly one Paused event for the session of that latest event.
C5_StopWhileRunningPauses == StopsWhileRunning => AppendedToLatest("paused")

\* C5 witness: a stop paused a session that had been resumed.
C5_Witness == StopsWhileRunning /\ LatestKind(last.events) = "resumed"

\* The precondition of the Aborted cells of the Stop(reset=true) column.
ResetsLiveSession ==
    /\ last.op = "stop" /\ last.ok /\ last.args.reset
    /\ LatestKind(last.events) \in {"started", "resumed", "paused"}

\* C6: Stop with reset, when the globally latest event is Started, Resumed or Paused,
\* appends exactly one Aborted event for the session of that latest event.
C6_StopResetAborts == ResetsLiveSession => AppendedToLatest("aborted")

\* C6 witness: `stop --reset` aborted a paused session.
C6_Witness == ResetsLiveSession /\ LatestKind(last.events) = "paused"

\* The precondition of the "already paused" cell.
StopsWhilePaused ==
    last.op = "stop" /\ ~last.args.reset /\ LatestKind(last.events) = "paused"

\* C7: Stop without reset, when the globally latest event is Paused, appends no event: the
\* event log is unchanged and the session stays Paused.
C7_StopWhilePausedIsNoOp ==
    StopsWhilePaused => StoreUnchanged /\ LatestKind(events) = "paused"

\* C7 witness: a stop without reset ran, and returned Ok, on a paused session.
C7_Witness == StopsWhilePaused /\ last.ok

\* The precondition of the no-op cells of both Stop columns.
StopsWithoutLiveSession ==
    last.op = "stop" /\ LatestKind(last.events) \in {"none", "aborted", "completed"}

\* C8: Stop, with or without reset, appends no event and creates no session when the store
\* has no event or the globally latest event is Aborted or Completed.
C8_StopWithoutLiveSessionIsNoOp == StopsWithoutLiveSession => StoreUnchanged

\* C8 witness: `stop --reset` ran, and returned Ok, after the session had completed.
C8_Witness ==
    StopsWithoutLiveSession /\ last.ok /\ last.args.reset /\ LatestKind(last.events) = "completed"

----------------------------------------------------------------------------
\* Shape of the event log (spec 3, invariants 1 and 2).

\* Row b was recorded after row a.
After(a, b) == Uuid_lt(a.session_event_id, b.session_event_id) \/ a.created_at < b.created_at

\* C9: Aborted and Completed are terminal: no event of a session comes after an Aborted or
\* Completed event of that same session.
C9_TerminalEventsAreLast ==
    \A a \in events, b \in events :
        (a.session_id = b.session_id /\ a.session_event_kind \in {"aborted", "completed"})
            => ~After(a, b)

\* C9 witness: a session completed, commands kept coming, and its Completed event is still
\* its last one while a later session has been started and paused.
C9_Witness ==
    /\ LatestKind(events) = "paused"
    /\ \E a \in events :
          /\ a.session_event_kind = "completed"
          /\ a.session_id # Newest(events).session_id
          /\ Newest(EventsOf(events, a.session_id)) = a

\* C10: the first (oldest) event of every session is a Started event.
C10_FirstEventIsStarted ==
    \A s \in sessions :
        \A r \in EventsOf(events, s.session_id) :
            (\A o \in EventsOf(events, s.session_id) : ~After(o, r))
                => r.session_event_kind = "started"

\* C10 witness: two sessions, the older with three events and the newer with one.
C10_Witness ==
    /\ Cardinality(sessions) = 2
    /\ \E s \in sessions : Cardinality(EventsOf(events, s.session_id)) = 3
    /\ \E s \in sessions : Cardinality(EventsOf(events, s.session_id)) = 1

\* The rows of the session of row r that were recorded before r.
Before(tbl, r) ==
    {o \in EventsOf(tbl, r.session_id) : Uuid_lt(o.session_event_id, r.session_event_id)}

\* Row r has an immediate predecessor within its session, and its kind is one of `kinds`.
PrecededBy(tbl, r, kinds) ==
    Before(tbl, r) # {} /\ Newest(Before(tbl, r)).session_event_kind \in kinds

\* C11: each Resumed event of a session is immediately preceded, within that session, by a
\* Paused event.
C11_ResumedFollowsPaused ==
    \A r \in events : r.session_event_kind = "resumed" => PrecededBy(events, r, {"paused"})

\* C11 witness: a session was paused, resumed and paused again, so a Resumed event sits
\* between two Paused events.
C11_Witness ==
    /\ LatestKind(events) = "paused"
    /\ \E r \in events :
          /\ r.session_event_kind = "resumed"
          /\ r.session_id = Newest(events).session_id
          /\ Newest(Before(events, Newest(events))) = r

\* C12: each Paused event of a session is immediately preceded, within that session, by a
\* Started or Resumed event.
C12_PausedFollowsRunning ==
    \A r \in events :
        r.session_event_kind = "paused" => PrecededBy(events, r, {"started", "resumed"})

\* C12 witness: one session holds a Paused event that follows its Started event and another
\* that follows a Resumed event.
C12_Witness ==
    \E a \in events, b \in events :
        /\ a.session_id = b.session_id
        /\ a.session_event_kind = "paused" /\ PrecededBy(events, a, {"started"})
        /\ b.session_event_kind = "paused" /\ PrecededBy(events, b, {"resumed"})

----------------------------------------------------------------------------
\* The status command (spec 4.3).

\* The session row with the greatest identifier.
LatestSession(tbl) == CHOOSE s \in tbl : \A o \in tbl : ~Uuid_lt(s.session_id, o.session_id)

\* The stored kind of the newest event of the latest session as the last command found it:
\* "none" when that session has no event.
KindBefore == LatestKind(EventsOf(last.events, LatestSession(last.sessions).session_id))

\* The last command was a status that printed a SessionStatus.
Reported == last.op = "status" /\ last.ok /\ Len(last.out) = 1

\* The SessionStatus printed by the last command.
Report == last.out[1]

\* The precondition of auto-completion: status found the latest session running and reports
\* that no time remains.
StatusOnExpiredRunning ==
    /\ Reported
    /\ last.sessions # {}
    /\ KindBefore \in {"started", "resumed"}
    /\ Report.remaining_secs = 0

\* C13: when status is run, the latest session's derived state is Running and its
\* remaining_secs is 0, status appends exactly one Completed event for that session and the
\* status it reports has state Completed, not Running.
C13_StatusAutoCompletes ==
    StatusOnExpiredRunning =>
        /\ sessions = last.sessions
        /\ last.events \subseteq events
        /\ \E r \in events :
              /\ NewEvents = {r}
              /\ r.session_event_kind = "completed"
              /\ r.session_id = LatestSession(last.sessions).session_id
        /\ Report.state = "Completed"

\* C13 witness: status completed a session that had been paused and resumed, once its
\* running time had reached the planned second.
C13_Witness ==
    /\ StatusOnExpiredRunning
    /\ KindBefore = "resumed"
    /\ Report.planned_secs = 1 /\ Report.elapsed_secs = 1
    /\ LatestKind(events) = "completed"

\* The cases in which status has nothing to complete: no session, a latest session that is
\* not running, or a running one with time left.
StatusWithoutExpiry ==
    /\ last.op = "status"
    /\ \/ last.sessions = {}
       \/ KindBefore \in {"paused", "aborted", "completed"}
       \/ Reported /\ KindBefore \in {"started", "resumed"} /\ Report.remaining_secs > 0

\* C14: status appends no event when no session exists, when the derived state is Paused,
\* Aborted or Completed (even if remaining_secs is 0), and when the state is Running with
\* remaining_secs > 0: the session and event stores are unchanged by status.
C14_StatusOtherwiseWritesNothing == StatusWithoutExpiry => StoreUnchanged

\* C14 witness: status ran on a paused session whose remaining_secs is 0, and wrote nothing.
C14_Witness ==
    /\ StatusWithoutExpiry
    /\ Reported
    /\ last.sessions # {}
    /\ KindBefore = "paused"
    /\ Report.state = "Paused"
    /\ Report.remaining_secs = 0
    /\ StoreUnchanged

\* The Completed rows of one session.
CompletedOf(tbl, session_id) ==
    {r \in EventsOf(tbl, session_id) : r.session_event_kind = "completed"}

\* The previous command was a status and the newest event of the latest session is
\* Completed: that status auto-completed the session, or found it completed already.
StatusLeftCompleted ==
    /\ last.op = "status"
    /\ sessions # {}
    /\ LatestKind(EventsOf(events, LatestSession(sessions).session_id)) = "completed"

\* C15: idempotence of auto-completion.  When status is called again after a status that
\* left the session completed, the call appends nothing, and the session holds exactly one
\* Completed event in total.
C15_AutoCompletionIsIdempotent ==
    [][(StatusLeftCompleted /\ StatusStep) =>
          /\ UNCHANGED <<sessions, events>>
          /\ Cardinality(CompletedOf(events', LatestSession(sessions').session_id)) = 1]_vars

\* C15 witness: status ran on a session whose time had run out and which an earlier status
\* had completed; it wrote nothing and the session holds one Completed event.
C15_Witness ==
    /\ Reported
    /\ last.sessions # {}
    /\ KindBefore = "completed"
    /\ Report.state = "Completed" /\ Report.remaining_secs = 0
    /\ StoreUnchanged
    /\ Cardinality(CompletedOf(events, LatestSession(sessions).session_id)) = 1

\* The row of the table with the least identifier.
Oldest(tbl) ==
    CHOOSE r \in tbl : \A o \in tbl : ~Uuid_lt(o.session_event_id, r.session_event_id)

\* The Paused, Aborted and Completed rows recorded after row r in its session.
ClosingAfter(tbl, r) ==
    {o \in EventsOf(tbl, r.session_id) :
        /\ Uuid_lt(r.session_event_id, o.session_event_id)
        /\ o.session_event_kind \in {"paused", "aborted", "completed"}}

\* The length at time t of the running interval that the Started or Resumed row r opens: up
\* to the next closing row, or up to t when none follows.
IntervalLength(tbl, r, t) ==
    IF ClosingAfter(tbl, r) = {} THEN t - r.created_at
    ELSE Oldest(ClosingAfter(tbl, r)).created_at - r.created_at

\* The sum of the lengths of the intervals opened by the rows of S.
RECURSIVE TotalLength(_, _, _)
TotalLength(S, tbl, t) ==
    IF S = {} THEN 0
    ELSE LET r == CHOOSE r \in S : TRUE
         IN IntervalLength(tbl, r, t) + TotalLength(S \ {r}, tbl, t)

\* The time a session has been running at time t.
RunningTime(tbl, session_id, t) ==
    TotalLength({r \in EventsOf(tbl, session_id) :
                    r.session_event_kind \in {"started", "resumed"}}, tbl, t)

\* C16: replay correctness.  For the event history of the latest session, which follows
\* the lifecycle rules, the elapsed time status computes at time `now` is the sum of the
\* lengths of the running intervals, each from a Started or Resumed event to the next
\* Paused, Aborted or Completed event, or to `now` when no closing event follows; the
\* elapsed_secs it reports is that sum in whole seconds.
C16_ReplaySumsRunningIntervals ==
    [][(StatusStep /\ sessions # {}) =>
          LET session_id == LatestSession(sessions).session_id
              result == list_session_events(events, ListSessionEventsArgs_with_session_id(session_id))
              total == RunningTime(events, session_id, now)
          IN /\ elapsed_time(result, now) = total
             /\ last'.out[1].elapsed_secs = total \div TicksPerSec]_vars

\* C16 witness: status ran on a session that was started, paused, and resumed later than it
\* was paused, so the time between Paused and Resumed is left out of the sum.
C16_Witness ==
    /\ Reported
    /\ last.sessions # {}
    /\ KindBefore = "resumed"
    /\ \E a \in last.events, b \in last.events, c \in last.events :
          /\ a.session_event_kind = "started"
          /\ b.session_event_kind = "paused"
          /\ c.session_event_kind = "resumed"
          /\ c = Newest(last.events) /\ b = Newest(Before(last.events, c))
          /\ a = Newest(Before(last.events, b))
          /\ a.created_at < b.created_at /\ b.created_at < c.created_at
          /\ RunningTime(last.events, c.session_id, c.created_at) = b.created_at - a.created_at

----------------------------------------------------------------------------
\* The status command on any event rows (spec 4.2, 4.3).

\* C17: for every status result, elapsed_secs >= 0 and remaining_secs is
\* max(planned_secs - elapsed_secs, 0), hence 0 <= remaining_secs <= planned_secs, for any
\* event timestamps, including ones where a closing event is stamped earlier than its
\* opening event.
C17_DurationsAreClamped ==
    Reported =>
        /\ Report.elapsed_secs >= 0
        /\ Report.remaining_secs = (IF Report.planned_secs - Report.elapsed_secs >= 0
                                    THEN Report.planned_secs - Report.elapsed_secs ELSE 0)
        /\ 0 <= Report.remaining_secs
        /\ Report.remaining_secs <= Report.planned_secs

\* C17 witness: status ran on a session whose Paused event is stamped a whole second
\* earlier than the Started event it closes, and reported elapsed_secs 0.
C17_Witness ==
    /\ Reported
    /\ \E a \in last.events, b \in last.events :
          /\ last.events = {a, b}
          /\ a.session_event_kind = "started" /\ b.session_event_kind = "paused"
          /\ Uuid_lt(a.session_event_id, b.session_event_id)
          /\ b.created_at + TicksPerSec <= a.created_at
    /\ Report.elapsed_secs = 0
    /\ Report.remaining_secs = Report.planned_secs

\* The lifecycle state that goes with the stored kind of a session's newest event.
DerivedState(kind) ==
    CASE kind \in {"started", "resumed"} -> "Running"
      [] kind = "paused" -> "Paused"
      [] kind = "aborted" -> "Aborted"
      [] kind = "completed" -> "Completed"
      [] kind = "none" -> "None"

\* C18: the lifecycle state status derives is a function of the kind of the newest event of
\* the latest session only: Started or Resumed gives Running, Paused gives Paused, Aborted
\* gives Aborted, Completed gives Completed, and a session with no event gives none.  The
\* state it prints is the same function of the newest event it leaves in the store.
C18_StateIsKindOfNewestEvent ==
    [][(StatusStep /\ sessions # {}) =>
          LET row == LatestSession(sessions)
              session == Session_from_row(row)
              result == list_session_events(events, ListSessionEventsArgs_with_session_id(session.id))
          IN /\ session_status(session, result, now).state =
                    DerivedState(LatestKind(EventsOf(events, row.session_id)))
             /\ last'.out[1].state =
                    DerivedState(LatestKind(EventsOf(events', row.session_id)))]_vars

\* C18 witness: status ran on a session that has no event and printed the state none.
C18_Witness ==
    /\ Reported
    /\ last.sessions # {}
    /\ KindBefore = "none"
    /\ Report.kind # "none"
    /\ Report.state = "None"
    /\ StoreUnchanged

----------------------------------------------------------------------------
\* The empty store (spec 4.3).

\* C19: when no session exists, status returns kind "none", state "none", planned_secs 0,
\* elapsed_secs 0 and remaining_secs 0, and writes nothing to the store.
C19_EmptyStoreStatus ==
    (last.op = "status" /\ last.sessions = {}) =>
        /\ Reported
        /\ Report.kind = "none"
        /\ SessionState_serialize(Report.state) = "none"
        /\ Report.planned_secs = 0
        /\ Report.elapsed_secs = 0
        /\ Report.remaining_secs = 0
        /\ StoreUnchanged

\* C19 witness: `status --output json` ran before any session was started, at a clock
\* reading later than the first.
C19_Witness ==
    /\ Reported
    /\ last.sessions = {} /\ last.events = {}
    /\ last.args.output = "Json"
    /\ now > 0
    /\ sessions = {} /\ events = {}

----------------------------------------------------------------------------
\* Transactions (spec 5).

\* The last command returned an error, or its commit failed.
Failed == last.op # "none" /\ ~last.ok

\* C20: atomicity on failure.  A command that fails, also after it has written (start
\* inserted the session and then the event insert fails; status inserted the Completed event
\* and then rendering fails), leaves the committed session and event stores exactly as they
\* were before the command; a mutation is visible only when the whole command succeeded and
\* committed.
C20_FailedCommandLeavesStore ==
    /\ Failed => StoreUnchanged
    /\ ~StoreUnchanged => last.ok /\ last.fault # "commit"

\* C20 witness: a start on a store whose latest event was terminal inserted its session,
\* failed to insert the Started event, and the store holds neither.
C20_Witness ==
    /\ Failed
    /\ last.op = "start"
    /\ last.fault = "insert_session_event"
    /\ LatestKind(last.events) \in {"aborted", "completed"}
    /\ Len(last.out) = 1
    /\ StoreUnchanged

----------------------------------------------------------------------------
\* Concurrent commands (spec 5).

\* The store after the commands of the processes `order[i..]` have run one after the other
\* on `store`, each at the clock reading and with the UUIDs it had.
RECURSIVE Serial(_, _, _)
Serial(order, i, store) ==
    IF i > Len(order) THEN store
    ELSE LET q == tx.proc[order[i]]
             r == dispatch(unwrap(q.cmd), store.sessions, store.events, q.t, q.seq)
         IN Serial(order, i + 1,
                   IF r.ok THEN [sessions |-> r.sessions, events |-> r.events] ELSE store)

\* The processes that hold a transaction.
InTransaction == {p \in Procs : tx.proc[p].pc \in {"begun", "executed"}}

\* Every process has run its command and committed.
AllDone == \A p \in Procs : tx.proc[p].pc = "done"

\* Both processes were `start`, on an empty store.
TwoStartsOnEmpty ==
    /\ tx.base.events = {} /\ tx.base.sessions = {}
    /\ \A p \in Procs : is_some(tx.proc[p].cmd) /\ unwrap(tx.proc[p].cmd).op = "start"

\* C21: concurrent commands are serialized.  At most one process is between the begin of
\* its transaction and its commit, so the reads and writes of two commands never interleave;
\* the store is at all times the one that running the committed commands one after the
\* other, in the order of their commits, gives; and two concurrent starts on an empty store
\* leave exactly one session and one Started event.
C21_CommandsAreSerialized ==
    /\ Cardinality(InTransaction) <= 1
    /\ [sessions |-> sessions, events |-> events] = Serial(tx.order, 1, tx.base)
    /\ (AllDone /\ TwoStartsOnEmpty) =>
          /\ Cardinality(sessions) = 1
          /\ \E r \in events : events = {r} /\ r.session_event_kind = "started"

\* C21 witness: two starts ran on an empty store, process 2 committing first, and one
\* session with one Started event is there.
C21_Witness ==
    /\ AllDone
    /\ TwoStartsOnEmpty
    /\ tx.order = <<2, 1>>
    /\ Cardinality(sessions) = 1 /\ Cardinality(events) = 1

----------------------------------------------------------------------------
\* The append-only log (spec 3, lifecycle).

\* C22: no command updates or deletes a session or an event.  After every start, stop or
\* status command the event log is the log before the command extended by zero or one
\* event, and the session store is the store before extended by zero or one session (one
\* only for start); every earlier row is there with all its columns unchanged, and a new row
\* has an identifier no earlier row had.
C22_LogIsAppendOnly ==
    last.op \in {"start", "stop", "status"} =>
        /\ last.events \subseteq events
        /\ Cardinality(NewEvents) <= 1
        /\ \A r \in NewEvents, o \in last.events : r.session_event_id # o.session_event_id
        /\ last.sessions \subseteq sessions
        /\ Cardinality(NewSessions) <= 1
        /\ \A r \in NewSessions, o \in last.sessions : r.session_id # o.session_id
        /\ NewSessions # {} => last.op = "start"

\* C22 witness: a start added one session and one event to a store that held an aborted
\* session of three events, all of which are still there.
C22_Witness ==
    /\ last.op = "start"
    /\ Cardinality(last.events) = 3 /\ Cardinality(last.sessions) = 1
    /\ LatestKind(last.events) = "aborted"
    /\ last.events \subseteq events /\ last.sessions \subseteq sessions
    /\ Cardinality(NewEvents) = 1 /\ Cardinality(NewSessions) = 1

----------------------------------------------------------------------------
\* Hooks (spec 4.1 rules, 6).

\* A command step of SpecHook.
CommandHook == StartHook \/ StopHook \/ StatusHook

\* What the command of the step being taken returns when it is run, on the same store and
\* at the same clock reading, with another Runner.
Rerun(runner) ==
    CASE last'.op = "start" ->
           StartCommand_execute(sessions, events,
                                with_config(last'.args, ProgramConfig_load(last'.file)),
                                runner, "none", now, nextSeq)
      [] last'.op = "stop" ->
           StopCommand_execute(sessions, events, last'.args, runner, "none", now, nextSeq)
      [] last'.op = "status" ->
           StatusCommand_execute(sessions, events, last'.args, runner, "none", now, nextSeq)

\* The step being taken ends as the command run with `runner` does: same result, same
\* output, same tables.
EndsAs(runner) ==
    LET r == Rerun(runner)
    IN /\ last'.ok = r.ok
       /\ last'.out = r.out
       /\ sessions' = (IF r.ok THEN r.sessions ELSE sessions)
       /\ events' = (IF r.ok THEN r.events ELSE events)

\* C23: hook failures never affect the command.  Whether the hook dispatch succeeds, finds
\* no hook file, fails to serialize, fails to spawn or fails to write its input, start, stop
\* and status return the same result, print the same, and leave the same rows in the store.
C23_HookFailuresAreSwallowed ==
    [][(CommandHook /\ is_some(last'.runner)) =>
          \A outcome \in HookOutcome : EndsAs(Some(outcome))]_vars

\* C23 witness: a status whose hook failed to spawn returned Ok, printed the completed
\* status and left the Completed event in the store.
C23_Witness ==
    /\ Reported
    /\ last.runner = Some("spawn_error")
    /\ last.spawned = <<>>
    /\ Report.state = "Completed"
    /\ \E r \in events : NewEvents = {r} /\ r.session_event_kind = "completed"


\* What a Runner is handed for the event row r: the event with its owning session.
Payload(r) ==
    [session |-> unwrap(get_session_by_id(sessions, r.session_id)),
     session_event |-> SessionEvent_from_row(r)]

\* The hook file the spec routes an event row to.
RoutedTo(r) ==
    CASE r.session_event_kind \in {"started", "resumed"} -> "start"
      [] r.session_event_kind \in {"paused", "aborted", "completed"} -> "stop"

\* C24: hook routing.  A Started or Resumed event is dispatched to the hook file "start", a
\* Paused, Aborted or Completed event to the hook file "stop", one hook per event; when the
\* routed hook file does not exist nothing is spawned and the dispatch returns success.
C24_HookRouting ==
    \A r \in NewEvents :
        /\ last.runner \in {Some("ok"), Some("write_error")} =>
              /\ Len(last.spawned) = 1
              /\ last.spawned[1].name = RoutedTo(r)
        /\ last.runner = Some("ok") => last.spawned[1].stdin = Some(Payload(r))
        /\ last.runner = Some("missing") =>
              /\ last.spawned = <<>>
              /\ Runner_execute("missing", Payload(r)) = [ok |-> TRUE, spawned |-> <<>>]
              /\ last.ok

\* C24 witness: a status whose Completed event went to the hook file "stop", on a store
\* whose Started event would have gone to "start".
C24_Witness ==
    /\ last.op = "status"
    /\ last.runner = Some("ok")
    /\ Len(last.spawned) = 1
    /\ last.spawned[1].name = "stop"
    /\ \E r \in NewEvents : r.session_event_kind = "completed"
    /\ \E r \in last.events : RoutedTo(r) = "start"


\* C25: with --no-hooks no hook is dispatched, and the command writes what it writes with
\* hooks: the same result, the same output and the same rows as the same command run from
\* the same state with a Runner whose hook runs.
C25_NoHooksWritesTheSame ==
    [][(CommandHook /\ last'.runner = None) =>
          /\ last'.spawned = <<>>
          /\ hooks' = hooks
          /\ EndsAs(Some("ok"))
          /\ Rerun(Some("ok")).seq = nextSeq']_vars

\* C25 witness: a stop with --no-hooks paused the running session and spawned nothing.
C25_Witness ==
    /\ last.op = "stop"
    /\ last.runner = None
    /\ last.ok
    /\ \E r \in NewEvents : r.session_event_kind = "paused"
    /\ hooks = <<>>

----------------------------------------------------------------------------
\* Event ordering (spec 2 invariant 6, 7).

\* The events of a session as Querier::list_session_events returns them.
Listing(session_id) ==
    list_session_events(events, ListSessionEventsArgs_with_session_id(session_id))

\* The event that start, stop and status take as the latest.
TakenAsLatest == list_session_events(events, ListSessionEventsArgs_first)[1]

\* C26: the ordering invariant.  The events of a session are listed newest-first by
\* identifier; that list reversed is in chronological order, created_at ascending; and the
\* event start, stop and status take as the latest is the most recently appended one.
C26_OrderingInvariant ==
    /\ \A session \in sessions :
          LET list == Listing(session.session_id)
          IN \A i, j \in 1..Len(list) :
                i < j => /\ Uuid_lt(list[j].id, list[i].id)
                         /\ list[j].created_at <= list[i].created_at
    /\ \A r \in NewEvents : TakenAsLatest = SessionEvent_from_row(r)

----------------------------------------------------------------------------
\* Errors (spec 5): an event whose session is missing.

\* The last command found a store whose globally latest event references a session that
\* has no row.
FoundOrphan ==
    /\ last.events # {}
    /\ \A s \in last.sessions : s.session_id # Newest(last.events).session_id

\* C27: when the globally latest event references a session id that is not in the session
\* store, stop, with or without --reset, fails and appends no event, and so does start when
\* that event is Started, Resumed or Paused.
C27_MissingSessionIsFatal ==
    (/\ FoundOrphan
     /\ \/ last.op = "stop"
        \/ last.op = "start" /\ LatestKind(last.events) \in {"started", "resumed", "paused"})
    => /\ ~last.ok
       /\ last.out = <<>>
       /\ last.spawned = <<>>
       /\ StoreUnchanged

\* C27 witness: a start that found a Paused event of a missing session failed, and a store
\* that also holds a session with its events was left as it was.
C27_Witness ==
    /\ FoundOrphan
    /\ last.op = "start"
    /\ LatestKind(last.events) = "paused"
    /\ ~last.ok
    /\ sessions # {}
    /\ StoreUnchanged

----------------------------------------------------------------------------
\* The session a start creates (spec 4.1 rules).

\* The configuration the last command ran with: the file's, or the built-in defaults of 25
\* and 5 minutes.
Configured ==
    IF last.file # None THEN last.file[1]
    ELSE [focus_duration |-> 25 * 60 * TicksPerSec, break_duration |-> 5 * 60 * TicksPerSec]

\* The duration the last start asked for, in ticks: --duration, else the configured default
\* of the requested kind.
Requested ==
    IF last.args.duration # None THEN last.args.duration[1]
    ELSE IF last.args.mode = "Focus" THEN Configured.focus_duration
    ELSE Configured.break_duration

\* The stored kind the last start asked for.
RequestedKind == IF last.args.mode = "Focus" THEN "focus" ELSE "break"

\* C28 as stated: a session created by start has the requested kind and a planned duration
\* equal to the explicit --duration when one is given, and otherwise to the configured
\* default for the requested kind.
C28_PlannedDurationIsRequested ==
    last.op = "start" =>
        \A s \in NewSessions :
            /\ s.session_kind = RequestedKind
            /\ s.planned_secs * TicksPerSec = Requested

\* C28: a session created by start has the requested kind and a planned duration equal to
\* the whole seconds of the explicit --duration when one is given, and otherwise to the
\* whole seconds of the configured default for the requested kind (focus default for Focus,
\* break default for Break); an explicit duration is never replaced by a default.
C28_PlannedDurationIsRequestedSeconds ==
    last.op = "start" =>
        \A s \in NewSessions :
            /\ s.session_kind = RequestedKind
            /\ s.planned_secs = Requested \div TicksPerSec
            /\ \A hook \in {last.spawned[i] : i \in 1..Len(last.spawned)} :
                  hook.stdin[1].session.planned_duration = s.planned_secs * TicksPerSec

\* C28 witness: a break started without --duration under a configuration file took the
\* file's break duration, not its focus duration and not the built-in default.
C28_Witness ==
    /\ last.op = "start"
    /\ last.args = [mode |-> "Break", duration |-> None]
    /\ last.file # None
    /\ \E s \in NewSessions :
          /\ s.session_kind = "break"
          /\ s.planned_secs = 3
          /\ s.planned_secs * TicksPerSec # Configured.focus_duration

----------------------------------------------------------------------------
\* Hook dispatch and the transaction (spec 4.1 rules, 5).

\* The payloads of the hooks the last command dispatched.
Dispatched == {last.spawned[i].stdin[1] : i \in 1..Len(last.spawned)}

\* The row an event is stored as.
RowOf(session_event) ==
    [session_event_id |-> session_event.id,
     session_event_kind |-> SessionEventKind_to_string(session_event.kind),
     session_id |-> session_event.session_id,
     created_at |-> session_event.created_at]

\* C29: every hook dispatch made by start, stop or status happens after the event was
\* inserted and carries that event together with its owning session.  A command whose
\* insert failed dispatched nothing; the session of a payload has the id its event's
\* session_id refers to; and after a command that succeeded the event of the payload is the
\* row the command appended and the session of the payload is a row of the session store.
C29_DispatchCarriesInsertedEvent ==
    /\ last.fault \in BeforeHook => last.spawned = <<>>
    /\ \A payload \in Dispatched :
          /\ payload.session.id = payload.session_event.session_id
          /\ last.ok =>
                /\ NewEvents = {RowOf(payload.session_event)}
                /\ \E s \in sessions : Session_from_row(s) = payload.session

\* C29 witness: a stop --reset dispatched the Aborted event it appended with the session,
\* created by an earlier start, that the event belongs to.
C29_Witness ==
    /\ last.op = "stop"
    /\ last.ok
    /\ \E payload \in Dispatched :
          /\ payload.session_event.kind = "Aborted"
          /\ RowOf(payload.session_event) \in NewEvents
          /\ \E s \in last.sessions : s.session_id = payload.session.id
          /\ payload.session.id = payload.session_event.session_id


\* The payloads of all hooks dispatched so far.
DispatchedSoFar == {hooks[i].stdin[1] : i \in 1..Len(hooks)}

\* C30: a hook is dispatched only for an event that ends up committed.  A command that fails
\* and is rolled back has dispatched no hook, the event of every hook dispatched is a row of
\* the store, and the stop hook for a session's completion is dispatched at most once.
C30_HooksOnlyForCommittedEvents ==
    /\ ~last.ok => last.spawned = <<>>
    /\ \A payload \in DispatchedSoFar : RowOf(payload.session_event) \in events
    /\ \A i, j \in 1..Len(hooks) :
          (/\ hooks[i].stdin[1].session_event.kind = "Completed"
           /\ hooks[j].stdin[1].session_event.kind = "Completed"
           /\ hooks[i].stdin[1].session.id = hooks[j].stdin[1].session.id) => i = j

----------------------------------------------------------------------------
\* Derived invariants of the reachable stores.

\* C31: a Completed event is appended only by the status command, and in every reachable
\* event log a Completed event is immediately preceded, within its session, by a Started or
\* Resumed event, never by a Paused event.
C31_CompletedFollowsRunning ==
    /\ (\E r \in NewEvents : r.session_event_kind = "completed") => last.op = "status"
    /\ \A r \in events :
          r.session_event_kind = "completed" =>
              /\ PrecededBy(events, r, {"started", "resumed"})
              /\ ~PrecededBy(events, r, {"paused"})

\* C31 witness: a session that was paused and resumed was completed by status, and the
\* Completed event follows the Resumed event; its planned time had run out while paused
\* sessions were left alone by status.
C31_Witness ==
    /\ last.op = "status"
    /\ \E r \in NewEvents :
          /\ r.session_event_kind = "completed"
          /\ PrecededBy(events, r, {"resumed"})
          /\ \E p \in Before(events, r) : p.session_event_kind = "paused"


\* The session status takes as current: the first of list_sessions.
SessionOfStatus == list_sessions(sessions, ListSessionsArgs_first)[1]

\* The event start and stop take as latest: the first of list_session_events.
EventOfStartStop == list_session_events(events, ListSessionEventsArgs_first)[1]

\* C32: start, stop and status agree on the current session.  In every reachable committed
\* state with at least one session, the session that owns the globally latest event, which
\* start and stop use, is the latest session by identifier, which status uses.
C32_CommandsAgreeOnSession ==
    sessions # {} =>
        /\ events # {}
        /\ EventOfStartStop.session_id = SessionOfStatus.id

\* C32 witness: the store holds an ended session and a later one, and the globally latest
\* event belongs to the later one.
C32_Witness ==
    /\ Cardinality(sessions) = 2
    /\ EventOfStartStop.session_id = SessionOfStatus.id
    /\ \E r \in events : r.session_id # SessionOfStatus.id
    /\ Cardinality(EventsOf(events, SessionOfStatus.id)) = 2


\* The Started rows of one session.
StartedOf(tbl, session_id) ==
    {r \in EventsOf(tbl, session_id) : r.session_event_kind = "started"}

\* C33: in every reachable committed state each session has exactly one Started event and
\* every event references an existing session, so the number of sessions equals the number
\* of Started events and no session exists without events.
C33_SessionsAndStartedEvents ==
    /\ \A s \in sessions : Cardinality(StartedOf(events, s.session_id)) = 1
    /\ \A r \in events : \E s \in sessions : s.session_id = r.session_id
    /\ Cardinality(sessions) = Cardinality({r \in events : r.session_event_kind = "started"})
    /\ \A s \in sessions : EventsOf(events, s.session_id) # {}

\* C33 witness: a start inserted the row of a second session, failed to insert its Started
\* event, and the committed store holds neither: one session with its one Started event.
C33_Witness ==
    /\ last.op = "start"
    /\ last.fault = "insert_session_event"
    /\ ~last.ok
    /\ LatestKind(last.events) \in {"aborted", "completed"}
    /\ Cardinality(sessions) = 1
    /\ Cardinality({r \in events : r.session_event_kind = "started"}) = 1


\* C34: in every reachable committed state, status reports state "none" exactly when it
\* reports kind "none", which is exactly when no session exists; a status with a focus or
\* break kind never has state none.
C34_NoneStateIffNoSession ==
    Reported =>
        /\ Report.state = "None" <=> Report.kind = "none"
        /\ Report.kind = "none" <=> last.sessions = {}
        /\ Report.kind \in {"focus", "break"} => Report.state # "None"
        /\ SessionState_serialize(Report.state) = "none" <=> Report.state = "None"

\* C34 witness: after a start that failed and was rolled back the store is still empty, and
\* status reports kind none and state none.
C34_Witness ==
    /\ Reported
    /\ Report.kind = "none" /\ Report.state = "None"
    /\ last.sessions = {}
    /\ nextSeq > 0

----------------------------------------------------------------------------
\* Status over time (spec 4.3).

\* The last command was a status that found the latest session with a Paused, Aborted or
\* Completed event as its newest, and printed.
StatusFoundStopped ==
    /\ Reported
    /\ last.sessions # {}
    /\ KindBefore \in {"paused", "aborted", "completed"}

\* C35: elapsed time is frozen while the session is not running.  When the latest session's
\* last event is Paused, Aborted or Completed, two status calls at different times with no
\* start or stop between them report the same elapsed_secs and remaining_secs; the second
\* reports them whatever the time it runs at.
C35_ElapsedIsFrozenWhenStopped ==
    [][(StatusStep /\ StatusFoundStopped) =>
          /\ last'.ok /\ Len(last'.out) = 1
          /\ last'.out[1].elapsed_secs = Report.elapsed_secs
          /\ last'.out[1].remaining_secs = Report.remaining_secs
          /\ \A t \in 0..MaxLate, args \in StatusCommandArgs :
                LET again == StatusCommand_execute(sessions, events, args, None, "none", t, nextSeq)
                IN /\ again.out[1].elapsed_secs = Report.elapsed_secs
                   /\ again.out[1].remaining_secs = Report.remaining_secs]_vars

\* C35 witness: a session ran for a second and was paused; a status that runs a second after
\* the pause reports one second elapsed and none remaining, as it would have at the pause.
C35_Witness ==
    /\ StatusFoundStopped
    /\ KindBefore = "paused"
    /\ Newest(events).created_at = Oldest(events).created_at + TicksPerSec
    /\ last.at >= Newest(events).created_at + TicksPerSec
    /\ Report.elapsed_secs = 1
    /\ Report.remaining_secs = 0
    /\ StoreUnchanged
\* The newest event of the latest session is Completed.
LatestSessionCompleted ==
    /\ sessions # {}
    /\ LatestKind(EventsOf(events, LatestSession(sessions).session_id)) = "completed"

\* C36: completion is stable.  Once status has completed a session, the session stays
\* completed until a start is run, and every status run in the meantime, at whatever later
\* time and after whatever stops, reports state Completed and remaining_secs 0.
C36_CompletionIsStable ==
    [][LatestSessionCompleted =>
          /\ StatusStep => /\ last'.ok /\ Len(last'.out) = 1
                           /\ last'.out[1].state = "Completed"
                           /\ last'.out[1].remaining_secs = 0
          /\ StartLate \/ LatestSessionCompleted']_vars

\* C36 witness: a status run a second or more after the one that completed the session
\* reports Completed and no time remaining.
C36_Witness ==
    /\ Reported
    /\ last.sessions # {}
    /\ KindBefore = "completed"
    /\ last.at >= Newest(last.events).created_at + TicksPerSec
    /\ Newest(last.events).created_at >= Oldest(last.events).created_at + TicksPerSec
    /\ Cardinality(last.events) = 2
    /\ Report.state = "Completed"
    /\ Report.remaining_secs = 0
    /\ Report.elapsed_secs >= Report.planned_secs

\* The identifiers a session can have.
SessionIds == (0..MaxLate) \X (1..MaxSeq)

\* The newest event of session id is Started or Resumed.
RunningSession(id) == LatestKind(EventsOf(events, id)) \in {"started", "resumed"}

\* C37: completion is eventually recorded.  While no stop is issued, the clock keeps advancing
\* and status keeps being run, every running session eventually holds a Completed event; and
\* a Completed event is written by a status step only, however long the session is overdue.
C37_CompletionIsEventuallyRecorded ==
    /\ \A id \in SessionIds : RunningSession(id) ~> (CompletedOf(events, id) # {})
    /\ [][(\E r \in events' \ events : r.session_event_kind = "completed") => StatusStep]_vars

\* C37 witness: status completed a session that had been overdue for a second: it had run
\* for two seconds of a planned one, and held no Completed event until this status.
C37_Witness ==
    /\ StatusOnExpiredRunning
    /\ Report.planned_secs = 1
    /\ Report.elapsed_secs = 2
    /\ CompletedOf(last.events, LatestSession(last.sessions).session_id) = {}
    /\ CompletedOf(events, LatestSession(sessions).session_id) # {}

----------------------------------------------------------------------------
\* The codec of the kinds (spec 3).

\* The last conversion parsed a text: the one given, or the one written by to_string.
Parsed == last.op \in {"SessionKind::try_from", "SessionEventKind::try_from"}

\* The text the last conversion parsed.
ParsedText == IF last.args.type = "text" THEN last.args.value ELSE last.out[1]

\* What the last conversion returned.
ParseResult == last.out[Len(last.out)]

\* C38: the string codec of the kinds is an exact round trip and fails on anything else.
\* Parsing the text written for a kind with the parser of its enum returns that kind, for
\* Focus, Break, Started, Resumed, Paused, Aborted and Completed; parsing any text that is
\* not the text of a kind of the parser's enum returns an error, never a kind.
C38_CodecRoundTrip ==
    /\ (last.op = "SessionKind::try_from" /\ last.args.type = "SessionKind")
           => last.ok /\ ParseResult = Some(last.args.value)
    /\ (last.op = "SessionEventKind::try_from" /\ last.args.type = "SessionEventKind")
           => last.ok /\ ParseResult = Some(last.args.value)
    /\ (last.op = "SessionKind::try_from"
           /\ ParsedText \notin {SessionKind_to_string(kind) : kind \in SessionKind})
           => ~last.ok /\ ParseResult = None
    /\ (last.op = "SessionEventKind::try_from"
           /\ ParsedText \notin {SessionEventKind_to_string(kind) : kind \in SessionEventKind})
           => ~last.ok /\ ParseResult = None

\* C38 witness: Completed was written as "completed" and read back as Completed.
C38_Witness ==
    /\ last.op = "SessionEventKind::try_from"
    /\ last.args = [type |-> "SessionEventKind", value |-> "Completed"]
    /\ last.out = <<"completed", Some("Completed")>>
    /\ last.ok

====
